---------------------------- MODULE Spec2Model ----------------------------
(***************************************************************************)
(* A model of src/main.py: the YouTubeRealDownloader helpers               *)
(* (extract_video_id, get_real_stream_url, get_video_info, parse_format,   *)
(* stream_video_directly) and the Flask request handlers that use them.    *)
(*                                                                         *)
(* Strings are sequences of one-character strings, so that the regular     *)
(* expressions of extract_video_id are computed character by character.    *)
(***************************************************************************)
EXTENDS Integers, Sequences, FiniteSets, TLC

VARIABLES
    fn_in,              \* argument of the helper under test (a sequence of characters)
    fn_parts,           \* how fn_in was assembled: scheme, shape, token, tail
    fn_out,             \* value the helper returned
    fn_pc,              \* "ready" before the call, "done" after it, "off" when unused
    reqs,               \* the requests being served: slot -> request record
    active_downloads    \* the module-level dictionary of line 267

fn_vars == <<fn_in, fn_parts, fn_out, fn_pc>>
srv_vars == <<reqs, active_downloads>>
vars == <<fn_in, fn_parts, fn_out, fn_pc, reqs, active_downloads>>

-----------------------------------------------------------------------------
(* Characters and strings *)

Lower == {"a","b","c","d","e","f","g","h","i","j","k","l","m",
          "n","o","p","q","r","s","t","u","v","w","x","y","z"}
Upper == {"A","B","C","D","E","F","G","H","I","J","K","L","M",
          "N","O","P","Q","R","S","T","U","V","W","X","Y","Z"}
Digit == {"0","1","2","3","4","5","6","7","8","9"}

\* the character class [a-zA-Z0-9_-] of the five patterns
IdChar == Lower \cup Upper \cup Digit \cup {"_", "-"}

\* the repetition count {11} of the five patterns
IdLen == 11

\* Python's None, as a value no string equals (its one element is not a character)
None == <<"None">>

AllIdChars(s) == \A i \in 1..Len(s) : s[i] \in IdChar

\* s[i..] starts with the literal lit
LitAt(lit, s, i) ==
    /\ i + Len(lit) - 1 <= Len(s)
    /\ \A k \in 1..Len(lit) : s[i + k - 1] = lit[k]

\* re.search(lit + '([a-zA-Z0-9_-]{11})', s): the positions where the pattern matches
MatchesAt(lit, s) ==
    { i \in 1..Len(s) :
        /\ LitAt(lit, s, i)
        /\ i + Len(lit) + IdLen - 1 <= Len(s)
        /\ AllIdChars(SubSeq(s, i + Len(lit), i + Len(lit) + IdLen - 1)) }

Min(S) == CHOOSE x \in S : \A y \in S : x <= y

\* group(1) of the leftmost match of the pattern, None when re.search finds nothing
SearchCapture(lit, s) ==
    IF MatchesAt(lit, s) = {} THEN None
    ELSE LET i == Min(MatchesAt(lit, s))
         IN  SubSeq(s, i + Len(lit), i + Len(lit) + IdLen - 1)

\* the literal parts of the four URL patterns, in the order of the list
LitWatch  == <<"y","o","u","t","u","b","e",".","c","o","m","/","w","a","t","c","h","?","v","=">>
LitShort  == <<"y","o","u","t","u",".","b","e","/">>
LitEmbed  == <<"y","o","u","t","u","b","e",".","c","o","m","/","e","m","b","e","d","/">>
LitShorts == <<"y","o","u","t","u","b","e",".","c","o","m","/","s","h","o","r","t","s","/">>

patterns == <<LitWatch, LitShort, LitEmbed, LitShorts>>

\* re.match(r'^[a-zA-Z0-9_-]{11}$', url): '$' matches at the end of the string and
\* also just before a newline that ends the string
BareMatch(url) ==
    \/ Len(url) = IdLen /\ AllIdChars(url)
    \/ /\ Len(url) = IdLen + 1
       /\ AllIdChars(SubSeq(url, 1, IdLen))
       /\ url[IdLen + 1] = "\n"

\* the for loop over patterns[k..]: the capture of the first pattern that matches
RECURSIVE FirstPattern(_, _, _)
FirstPattern(pats, k, url) ==
    IF k > Len(pats) THEN None
    ELSE IF SearchCapture(pats[k], url) # None THEN SearchCapture(pats[k], url)
    ELSE FirstPattern(pats, k + 1, url)

\* a variant whose pattern list lacks the shorts pattern
extract_video_id_no_shorts(url) ==
    IF FirstPattern(SubSeq(patterns, 1, 3), 1, url) # None
    THEN FirstPattern(SubSeq(patterns, 1, 3), 1, url)
    ELSE IF BareMatch(url) THEN url ELSE None

\* a variant that returns the capture of the leftmost match of any pattern
extract_video_id_leftmost(url) ==
    LET hits == { k \in 1..Len(patterns) : MatchesAt(patterns[k], url) # {} }
    IN  IF hits # {}
        THEN SearchCapture(patterns[CHOOSE k \in hits : \A j \in hits :
                               Min(MatchesAt(patterns[k], url)) <= Min(MatchesAt(patterns[j], url))],
                           url)
        ELSE IF BareMatch(url) THEN url ELSE None

extract_video_id(url) ==
    IF FirstPattern(patterns, 1, url) # None THEN FirstPattern(patterns, 1, url)
    ELSE IF BareMatch(url) THEN url
    ELSE None


-----------------------------------------------------------------------------
(* Arguments for extract_video_id: scheme + shape + token + tail *)

\* the literal that precedes the token in each input shape ("other" is a path no
\* pattern names)
ShapeLit(shape) ==
    CASE shape = "watch"  -> LitWatch
      [] shape = "short"  -> LitShort
      [] shape = "embed"  -> LitEmbed
      [] shape = "shorts" -> LitShorts
      [] shape = "bare"   -> <<>>
      [] shape = "other"  -> <<"y","o","u","t","u","b","e",".","c","o","m","/","v","/">>

AcceptedShapes == {"watch", "short", "embed", "shorts", "bare"}

\* tokens of 11 identifier characters: one per character of the class, and some mixed
Tokens11 ==
    { [i \in 1..IdLen |-> c] : c \in IdChar } \cup
    { <<"d","Q","w","4","w","9","W","g","X","c","Q">>,
      <<"-","_","-","_","-","_","-","_","-","_","-">>,
      <<"0","1","2","3","4","5","6","7","8","9","A">>,
      <<"y","o","u","t","u","b","e","_","c","o","m">> }

\* with tokens that are too short to be an identifier
Tokens == Tokens11 \cup { <<"Z","Z","Z","Z","Z","Z","Z","Z","Z","Z">>, <<"a","b","c">> }

\* what follows the token: nothing, a query string, a path separator, a newline,
\* or further identifier characters
Tails == { <<>>,
           <<"&","t","=","1">>,
           <<"?","s","i","=","a","b">>,
           <<"/">>,
           <<"\n">>,
           <<"X">>,
           <<"X","Y","&","t","=","1">> }

\* tails that end the identifier: empty, or starting with a character outside the class
CleanTails == { t \in Tails : t = <<>> \/ (t[1] \notin IdChar /\ t[1] # "\n") }

Assemble(p) ==
    IF p.shape = "bare" THEN p.token \o p.tail
    ELSE p.scheme \o ShapeLit(p.shape) \o p.token \o p.tail

Parts ==
    { p \in [scheme : { <<>>,
                        <<"h","t","t","p","s",":","/","/">>,
                        <<"h","t","t","p","s",":","/","/","w","w","w",".">> },
             shape : AcceptedShapes \cup {"other"}, token : Tokens, tail : Tails] :
        p.shape = "bare" => p.scheme = <<>> }

\* the identifier characters that follow position 0 of s, up to the first other one
RECURSIVE IdRun(_)
IdRun(s) ==
    IF s = <<>> \/ Head(s) \notin IdChar THEN <<>>
    ELSE <<Head(s)>> \o IdRun(Tail(s))

\* the complete identifier segment of an assembled input
Segment(p) == p.token \o IdRun(p.tail)

IdInit ==
    /\ fn_parts \in Parts
    /\ fn_in = Assemble(fn_parts)
    /\ fn_out = None
    /\ fn_pc = "ready"
    /\ reqs = <<>>
    /\ active_downloads = <<>>

\* one call of YouTubeRealDownloader.extract_video_id(fn_in)
CallExtractVideoId ==
    /\ fn_pc = "ready"
    /\ fn_out' = extract_video_id(fn_in)
    /\ fn_pc' = "done"
    /\ UNCHANGED <<fn_in, fn_parts, reqs, active_downloads>>

\* extract_video_id on every assembled argument
SpecId == IdInit /\ [][CallExtractVideoId]_<<fn_in, fn_parts, fn_out, fn_pc, reqs, active_downloads>>

-----------------------------------------------------------------------------
(* Arguments for extract_video_id that hold two URLs: scheme + first URL +      *)
(* separator + scheme + second URL                                              *)

\* every ordered pair of the four URL shapes, with three identifiers
OrderParts ==
    LET UrlShapes == {"watch", "short", "embed", "shorts"}
        OrderTokens == { [i \in 1..IdLen |-> "A"], [i \in 1..IdLen |-> "b"],
                         <<"d","Q","w","4","w","9","W","g","X","c","Q">> }
    IN  [first : [shape : UrlShapes, token : OrderTokens],
         second : [shape : UrlShapes, token : OrderTokens],
         sep : { <<"?","u","=">>, <<" ">> }]

AssembleTwo(p) ==
    LET SchemeHttps == <<"h","t","t","p","s",":","/","/">>
    IN  SchemeHttps \o ShapeLit(p.first.shape) \o p.first.token \o p.sep \o
        SchemeHttps \o ShapeLit(p.second.shape) \o p.second.token

OrderInit ==
    /\ fn_parts \in OrderParts
    /\ fn_in = AssembleTwo(fn_parts)
    /\ fn_out = None
    /\ fn_pc = "ready"
    /\ reqs = <<>>
    /\ active_downloads = <<>>

\* extract_video_id on every argument made of two URLs
SpecOrder == OrderInit /\ [][CallExtractVideoId]_<<fn_in, fn_parts, fn_out, fn_pc, reqs, active_downloads>>

-----------------------------------------------------------------------------
(* Python values: a dictionary key is absent, or holds None, a number, a string, *)
(* a boolean or a list                                                           *)

Absent  == [t |-> "absent"]
Null    == [t |-> "null"]
Num(n)  == [t |-> "num", v |-> n]
\* the float n.0
Float(n) == [t |-> "float", v |-> n]
Str(s)  == [t |-> "str", v |-> s]
Bool(b) == [t |-> "bool", v |-> b]
List(l) == [t |-> "list", v |-> l]

\* d.get(key, default): the default only when the key is absent
Get(f, default) == IF f.t = "absent" THEN default ELSE f

\* d.get(key): None when the key is absent
GetNone(f) == Get(f, Null)

\* 'key' in d
HasKey(f) == f.t # "absent"

\* bool(x)
Truthy(f) ==
    CASE f.t = "num"  -> f.v # 0
      [] f.t = "float" -> f.v # 0
      [] f.t = "str"  -> f.v # <<>>
      [] f.t = "bool" -> f.v
      [] f.t = "list" -> f.v # <<>>
      [] OTHER        -> FALSE

\* x == 'literal'
EqStr(f, s) == f.t = "str" /\ f.v = s

\* sub in s, for strings
Contains(sub, s) == \E i \in 1..(Len(s) + 1) : LitAt(sub, s, i)

\* s[:n]
Take(s, n) == SubSeq(s, 1, IF Len(s) < n THEN Len(s) ELSE n)

\* str(n) for n >= 0
RECURSIVE IntToStr(_)
IntToStr(n) ==
    LET digits == <<"0","1","2","3","4","5","6","7","8","9">>
    IN  IF n < 10 THEN <<digits[n + 1]>> ELSE IntToStr(n \div 10) \o <<digits[(n % 10) + 1]>>

\* the text an f-string prints for a value: str() of an int has no point, str() of
\* a float always has one
Text(f) ==
    CASE f.t = "str"   -> f.v
      [] f.t = "num"   -> IntToStr(f.v)
      [] f.t = "float" -> IntToStr(f.v) \o <<".","0">>
      [] f.t = "bool"  -> IF f.v THEN <<"T","r","u","e">> ELSE <<"F","a","l","s","e">>
      [] OTHER         -> <<"N","o","n","e">>

-----------------------------------------------------------------------------
(* Entries of info['formats'], as yt-dlp hands them to the helpers *)

\* a dictionary with no key
BlankEntry ==
    [mapping |-> TRUE,
     format_id |-> Absent, format_note |-> Absent, ext |-> Absent,
     filesize |-> Absent, filesize_approx |-> Absent, url |-> Absent,
     height |-> Absent, width |-> Absent, fps |-> Absent, tbr |-> Absent,
     vcodec |-> Absent, acodec |-> Absent, has_drm |-> Absent]

\* a dictionary with the given keys
Entry(keys) == keys @@ BlankEntry

\* a list element that is no dictionary (None, a string, a number)
NonMapping == [BlankEntry EXCEPT !.mapping = FALSE]

StrNone == <<"n","o","n","e">>
StrMp4  == <<"m","p","4">>
StrWebm == <<"w","e","b","m">>

-----------------------------------------------------------------------------
(* YouTubeRealDownloader.parse_format *)

\* a variant that prefers the bitrate to the height
QualityBitrateFirst(fmt) ==
    IF Truthy(Get(fmt.format_note, Str(<<>>))) THEN Get(fmt.format_note, Str(<<>>)).v
    ELSE IF Truthy(GetNone(fmt.tbr)) THEN Text(fmt.tbr) \o <<"k","b","p","s">>
    ELSE IF Truthy(GetNone(fmt.height)) THEN Text(fmt.height) \o <<"p">>
    ELSE <<"U","n","k","n","o","w","n">>

Quality(fmt) ==
    IF Truthy(Get(fmt.format_note, Str(<<>>))) THEN Get(fmt.format_note, Str(<<>>)).v
    ELSE IF Truthy(GetNone(fmt.height)) THEN Text(fmt.height) \o <<"p">>
    ELSE IF Truthy(GetNone(fmt.tbr)) THEN Text(fmt.tbr) \o <<"k","b","p","s">>
    ELSE <<"U","n","k","n","o","w","n">>

HasVideo(fmt) == ~EqStr(GetNone(fmt.vcodec), StrNone)
HasAudio(fmt) == ~EqStr(GetNone(fmt.acodec), StrNone)

FormatType(fmt) ==
    IF HasVideo(fmt) /\ HasAudio(fmt) THEN "video+audio"
    ELSE IF HasVideo(fmt) THEN "video"
    ELSE "audio"

KiB == 1024

\* a variant that falls back to the approximate size whenever the exact one is falsy
FileSizeOrApprox(fmt) ==
    IF Truthy(GetNone(fmt.filesize)) THEN fmt.filesize ELSE Get(fmt.filesize_approx, Num(0))

\* fmt.get('filesize', fmt.get('filesize_approx', 0))
FileSize(fmt) == Get(fmt.filesize, Get(fmt.filesize_approx, Num(0)))

\* the unit of the size text; the number printed before it is kept as the byte count
SizeOf(fmt) ==
    LET filesize == FileSize(fmt) IN
    IF ~Truthy(filesize) THEN [unit |-> "Unknown", bytes |-> 0]
    ELSE IF filesize.v >= KiB * KiB * KiB THEN [unit |-> "GB", bytes |-> filesize.v]
    ELSE IF filesize.v >= KiB * KiB THEN [unit |-> "MB", bytes |-> filesize.v]
    ELSE IF filesize.v >= KiB THEN [unit |-> "KB", bytes |-> filesize.v]
    ELSE [unit |-> "B", bytes |-> filesize.v]

StrGoogleVideo == <<"g","o","o","g","l","e","v","i","d","e","o",".","c","o","m">>

parse_format(fmt) ==
    LET url == Get(fmt.url, Str(<<>>)) IN
    [format_id      |-> Get(fmt.format_id, Str(<<>>)),
     quality        |-> Quality(fmt),
     type           |-> FormatType(fmt),
     extension      |-> Get(fmt.ext, Str(<<>>)),
     size           |-> SizeOf(fmt),
     has_video      |-> HasVideo(fmt),
     has_audio      |-> HasAudio(fmt),
     fps            |-> Get(fmt.fps, Num(0)),
     width          |-> Get(fmt.width, Num(0)),
     height         |-> Get(fmt.height, Num(0)),
     tbr            |-> Get(fmt.tbr, Num(0)),
     vcodec         |-> Get(fmt.vcodec, Str(<<>>)),
     acodec         |-> Get(fmt.acodec, Str(<<>>)),
     url            |-> url,
     is_googlevideo |-> IF Truthy(url) THEN Contains(StrGoogleVideo, url.v) ELSE FALSE,
     has_drm        |-> Get(fmt.has_drm, Bool(FALSE))]

-----------------------------------------------------------------------------
(* What ydl.extract_info hands back: it raises, returns None, or returns a dictionary *)

BlankInfo ==
    [tag |-> "info",
     url |-> Absent, ext |-> Absent, filesize |-> Absent,
     title |-> Absent, channel |-> Absent, duration_string |-> Absent,
     view_count |-> Absent, description |-> Absent, thumbnail |-> Absent,
     formats |-> Absent]

Info(keys)   == keys @@ BlankInfo
InfoRaises   == [BlankInfo EXCEPT !.tag = "raise"]
InfoNone     == [BlankInfo EXCEPT !.tag = "none"]
NoAnswer     == [BlankInfo EXCEPT !.tag = "unasked"]

\* bool(info): None and the empty dictionary are falsy
InfoTruthy(info) == info.tag = "info" /\ info # BlankInfo

-----------------------------------------------------------------------------
(* YouTubeRealDownloader.get_real_stream_url *)

\* the None both helpers return on failure, and the dictionary get_real_stream_url builds
NoStream ==
    [some |-> FALSE, raised |-> FALSE, url |-> Absent, direct_url |-> Absent,
     format_id |-> <<>>, ext |-> Absent, filesize |-> Absent, has_drm |-> Absent]

\* an exception leaving the try block, in place of a return value
StreamRaised == [NoStream EXCEPT !.raised = TRUE]

StreamInfo(url, format_id, ext, filesize, has_drm) ==
    [some |-> TRUE, raised |-> FALSE, url |-> url, direct_url |-> url,
     format_id |-> format_id, ext |-> ext, filesize |-> filesize, has_drm |-> has_drm]

\* a variant that takes the first entry with a url, whatever its format_id
StreamFromFormatsAnyId(fmts, k, format_id) ==
    LET found == { j \in k..Len(fmts) : HasKey(fmts[j].url) }
        first == CHOOSE j \in found : \A i \in found : j <= i
    IN  IF found = {} THEN NoStream
        ELSE StreamInfo(fmts[first].url, format_id, Get(fmts[first].ext, Str(StrMp4)),
                        Get(fmts[first].filesize, Num(0)), Get(fmts[first].has_drm, Bool(FALSE)))

\* the loop over info['formats'][k..]: a list element that is no dictionary raises
\* (AttributeError on fmt.get)
RECURSIVE StreamFromFormats(_, _, _)
StreamFromFormats(fmts, k, format_id) ==
    IF k > Len(fmts) THEN NoStream
    ELSE IF ~fmts[k].mapping THEN StreamRaised
    ELSE IF EqStr(GetNone(fmts[k].format_id), format_id) /\ HasKey(fmts[k].url)
         THEN StreamInfo(fmts[k].url, format_id, Get(fmts[k].ext, Str(StrMp4)),
                         Get(fmts[k].filesize, Num(0)), Get(fmts[k].has_drm, Bool(FALSE)))
    ELSE StreamFromFormats(fmts, k + 1, format_id)

\* lines 50-84, the body of the try block: it returns a dictionary or None, or an
\* exception leaves it
get_real_stream_url_try(video_id, format_id, info) ==
    IF info.tag = "raise" THEN StreamRaised
    ELSE IF InfoTruthy(info) /\ HasKey(info.url)
         THEN StreamInfo(info.url, format_id, Get(info.ext, Str(StrMp4)),
                         Get(info.filesize, Num(0)), Bool(FALSE))
    \* 'formats' in None raises TypeError
    ELSE IF info.tag = "none" THEN StreamRaised
    ELSE IF ~HasKey(info.formats) THEN NoStream
    \* iterating a formats value that is no list raises
    ELSE IF info.formats.t # "list" THEN StreamRaised
    ELSE StreamFromFormats(info.formats.v, 1, format_id)

\* a variant without the except clause
get_real_stream_url_uncaught(video_id, format_id, info) ==
    get_real_stream_url_try(video_id, format_id, info)

\* lines 49-88: the except clause turns every exception of the body into None
get_real_stream_url(video_id, format_id, info) ==
    LET result == get_real_stream_url_try(video_id, format_id, info)
    IN  IF result.raised THEN NoStream ELSE result

-----------------------------------------------------------------------------
(* YouTubeRealDownloader.get_video_info *)

NoVideoInfo ==
    [some |-> FALSE, raised |-> FALSE, video_id |-> <<>>, title |-> Absent, channel |-> Absent,
     duration |-> Absent, views |-> Absent, description |-> <<>>, thumbnail |-> Absent,
     formats |-> <<>>, format_count |-> 0]

\* a variant that parses every entry, with or without a url
ParsedFormatsAll(fmts) == [k \in 1..Len(fmts) |-> parse_format(fmts[k])]

\* the loop of lines 109-113 over a list of dictionaries: parse the entries with a url
RECURSIVE ParsedFormats(_)
ParsedFormats(fmts) ==
    IF fmts = <<>> THEN <<>>
    ELSE IF Truthy(GetNone(Head(fmts).url))
         THEN <<parse_format(Head(fmts))>> \o ParsedFormats(Tail(fmts))
    ELSE ParsedFormats(Tail(fmts))

\* the sort key of lines 116-120
TypeRank(x) == IF x.type = "video+audio" THEN 0 ELSE IF x.type = "video" THEN 1 ELSE 2

\* a variant that puts the low resolutions first
SortKeyAscending(x) == <<TypeRank(x), x.height.v, 0 - x.tbr.v>>

SortKey(x) == <<TypeRank(x), 0 - x.height.v, 0 - x.tbr.v>>

\* -x.get('height', 0) and -x.get('tbr', 0) raise TypeError on None (and on a string)
SortKeyRaises(x) == x.height.t \notin {"num", "float"} \/ x.tbr.t \notin {"num", "float"}

KeyLess(a, b) ==
    \/ a[1] < b[1]
    \/ a[1] = b[1] /\ a[2] < b[2]
    \/ a[1] = b[1] /\ a[2] = b[2] /\ a[3] < b[3]

\* insert x behind every element whose key is not greater: list.sort is stable
RECURSIVE InsertByKey(_, _)
InsertByKey(sorted, x) ==
    IF sorted = <<>> THEN <<x>>
    ELSE IF KeyLess(SortKey(x), SortKey(Head(sorted))) THEN <<x>> \o sorted
    ELSE <<Head(sorted)>> \o InsertByKey(Tail(sorted), x)

RECURSIVE SortFormats(_)
SortFormats(fs) ==
    IF fs = <<>> THEN <<>>
    ELSE InsertByKey(SortFormats(SubSeq(fs, 1, Len(fs) - 1)), fs[Len(fs)])

\* the body of the try block raises: the formats value is no list, an element of it
\* is no dictionary, or a sort key cannot be negated
VideoInfoRaises(info) ==
    /\ HasKey(info.formats)
    /\ \/ info.formats.t # "list"
       \/ \E k \in 1..Len(info.formats.v) : ~info.formats.v[k].mapping
       \/ \E k \in 1..Len(ParsedFormats(info.formats.v)) :
              SortKeyRaises(ParsedFormats(info.formats.v)[k])

ThumbUrl(video_id, name) ==
    <<"h","t","t","p","s",":","/","/","i",".","y","t","i","m","g",".","c","o","m","/","v","i","/">> \o video_id \o <<"/">> \o name \o <<".","j","p","g">>

\* lines 94-132, the body of the try block
get_video_info_try(video_id, info) ==
    IF info.tag = "raise" THEN [NoVideoInfo EXCEPT !.raised = TRUE]
    ELSE IF ~InfoTruthy(info) THEN NoVideoInfo
    ELSE IF VideoInfoRaises(info) THEN [NoVideoInfo EXCEPT !.raised = TRUE]
    ELSE LET formats == IF HasKey(info.formats)
                        THEN SortFormats(ParsedFormats(info.formats.v))
                        ELSE <<>>
         IN  [some         |-> TRUE,
              raised       |-> FALSE,
              video_id     |-> video_id,
              title        |-> Get(info.title, Str(<<>>)),
              channel      |-> Get(info.channel, Str(<<>>)),
              duration     |-> Get(info.duration_string, Str(<<>>)),
              views        |-> Get(info.view_count, Num(0)),
              description  |-> IF Truthy(GetNone(info.description))
                               THEN Take(info.description.v, 200) \o <<".",".",".">>
                               ELSE <<>>,
              thumbnail    |-> Get(info.thumbnail,
                                   Str(ThumbUrl(video_id, <<"m","a","x","r","e","s","d","e","f","a","u","l","t">>))),
              formats      |-> formats,
              format_count |-> Len(formats)]

\* lines 93-136: the except clause turns every exception of the body into None
get_video_info(video_id, info) ==
    LET result == get_video_info_try(video_id, info)
    IN  IF result.raised THEN NoVideoInfo ELSE result

-----------------------------------------------------------------------------
(* The options of the network calls *)

TIMEOUT == 60

\* ydl_opts of get_real_stream_url, lines 50-55 ('format' holds format_id)
ydl_opts_stream == [quiet |-> TRUE, no_warnings |-> TRUE, format |-> "format_id", extract_flat |-> FALSE]

\* ydl_opts of get_video_info, lines 94-98
ydl_opts_info == [quiet |-> TRUE, no_warnings |-> TRUE, extract_flat |-> FALSE]

\* the keyword arguments of requests.get besides headers, lines 238, 1521, 1567
requests_get_args == [stream |-> TRUE, timeout |-> TIMEOUT]

\* 1 when the options of a call name no timeout (timeout for requests.get,
\* socket_timeout for yt-dlp), else 0
Untimed(opts) ==
    IF "timeout" \in DOMAIN opts \/ "socket_timeout" \in DOMAIN opts THEN 0 ELSE 1

-----------------------------------------------------------------------------
(* Requests and responses *)

\* what the client has been sent: nothing yet, a jsonify body, a streamed body, the
\* WSGI server's own error page, or (for the helper stream_video_directly) the None
\* the helper returned
NoResponse ==
    [kind |-> "none", status |-> 0, keys |-> {}, error |-> <<>>,
     content_type |-> <<>>, disposition |-> <<>>, content_length |-> <<>>,
     payload |-> NoVideoInfo, title |-> Absent, direct_url |-> Absent, url_length |-> 0,
     health |-> <<>>, timestamp |-> 0,
     has_formats |-> FALSE, formats_count |-> 0, can_download |-> FALSE,
     sample_url_available |-> FALSE, is_googlevideo |-> FALSE]

JsonError(status, message) ==
    [NoResponse EXCEPT !.kind = "json_error", !.status = status,
                       !.keys = {"success", "error"}, !.error = message]

IdleReq ==
    [pc            |-> "idle",
     ep            |-> "none",
     url           |-> <<>>,
     video_id      |-> <<>>,
     format_id     |-> <<>>,
     quality       |-> <<>>,
     ans_stream    |-> NoAnswer,      \* extract_info's answer inside get_real_stream_url
     ans_info      |-> NoAnswer,      \* extract_info's answer inside get_video_info
     stream_info   |-> NoStream,
     extract_calls |-> 0,             \* calls of extract_info made for this request
     untimed_calls |-> 0,             \* network calls issued without a timeout option
     upstream      |-> [status |-> 0, body |-> <<>>],    \* status and body the relay target answers with
     up_outcome    |-> "none",        \* "ok", "refused" (requests.get raised), "broken"
     chunk_size    |-> 0,
     offset        |-> 0,             \* bytes of the upstream body read so far
     buf           |-> <<>>,          \* the chunk read and not yet handed to the client
     reads_after_gone |-> 0,          \* chunks read after the client went away
     conn          |-> "none",        \* upstream connection: "none", "open", "closed"
     client        |-> "connected",   \* "connected" or "gone"
     resp          |-> NoResponse,    \* the response the handler returned
     client_status |-> 0,             \* the status line the client received, 0 if none
     client_kind   |-> "none",        \* the kind of body the client received
     sent          |-> <<>>,          \* body bytes the client received
     ended         |-> "no",          \* "no", "complete", "aborted"
     failure       |-> "none"]        \* "none", "handler", "generator"

Put(r, rec) == reqs' = [reqs EXCEPT ![r] = rec]

\* a handler returns a jsonify body: the client receives it whole
Answered(q, resp, failure) ==
    [q EXCEPT !.pc = "done", !.resp = resp, !.client_status = resp.status,
              !.client_kind = resp.kind, !.ended = "complete", !.failure = failure]

-----------------------------------------------------------------------------
(* GET /api/get-video-info *)

\* a variant that checks only that the url parameter is there
get_video_info_route_begin_unchecked(r, env) ==
    /\ reqs[r].pc = "idle"
    /\ \E url \in env.urls :
         LET q == [reqs[r] EXCEPT !.ep = "info", !.url = url]
         IN  IF url = <<>>
             THEN Put(r, Answered(q, JsonError(400, <<"U","R","L"," ","p","a","r","a","m","e","t","e","r"," ","i","s"," ","r","e","q","u","i","r","e","d">>), "handler"))
             ELSE Put(r, [q EXCEPT !.pc = "info_extract", !.video_id = extract_video_id(url)])
    /\ UNCHANGED <<fn_vars, active_downloads>>

\* lines 1454-1461: the url parameter is read and checked
get_video_info_route_begin(r, env) ==
    /\ reqs[r].pc = "idle"
    /\ \E url \in env.urls :
         LET q   == [reqs[r] EXCEPT !.ep = "info", !.url = url]
             vid == extract_video_id(url)
         IN  IF url = <<>>
             THEN Put(r, Answered(q, JsonError(400, <<"U","R","L"," ","p","a","r","a","m","e","t","e","r"," ","i","s"," ","r","e","q","u","i","r","e","d">>), "handler"))
             ELSE IF vid = None
             THEN Put(r, Answered(q, JsonError(400, <<"I","n","v","a","l","i","d"," ","Y","o","u","T","u","b","e"," ","U","R","L">>), "handler"))
             ELSE Put(r, [q EXCEPT !.pc = "info_extract", !.video_id = vid])
    /\ UNCHANGED <<fn_vars, active_downloads>>

\* a variant whose response lacks the format list
InfoResponseKeysNoFormats ==
    {"success", "video_id", "title", "channel", "duration", "views", "description",
     "thumbnail", "format_count"}

\* the keys of the response dictionary of lines 1471-1482
InfoResponseKeys ==
    {"success", "video_id", "title", "channel", "duration", "views", "description",
     "thumbnail", "formats", "format_count"}

\* the response dictionary of lines 1471-1482
InfoPayload(video_id, video_info) ==
    [video_info EXCEPT !.video_id = video_id, !.format_count = Len(video_info.formats)]

\* lines 1463-1487: get_video_info is called and its result turned into the response
get_video_info_route_respond(r, env) ==
    /\ reqs[r].pc = "info_extract"
    /\ \E ans \in env.answers :
         LET q0 == [reqs[r] EXCEPT !.ans_info = ans, !.extract_calls = @ + 1,
                               !.untimed_calls = @ + Untimed(ydl_opts_info)]
             video_info == get_video_info(q0.video_id, ans)
         IN  IF ~video_info.some
             THEN Put(r, Answered(q0, JsonError(500, <<"C","o","u","l","d"," ","n","o","t"," ","f","e","t","c","h"," ","v","i","d","e","o"," ","i","n","f","o","r","m","a","t","i","o","n">>),
                                  "handler"))
             ELSE Put(r, Answered(q0, [NoResponse EXCEPT
                                          !.kind = "json", !.status = 200,
                                          !.keys = InfoResponseKeys,
                                          !.payload = InfoPayload(q0.video_id, video_info)],
                                  "none"))
    /\ UNCHANGED <<fn_vars, active_downloads>>

-----------------------------------------------------------------------------
(* The relay: requests.get(..., stream=True), iter_content and the generator *)

\* Response.raise_for_status raises for 4xx and 5xx
RaisesForStatus(status) == 400 <= status /\ status < 600

\* a variant that reads every chunk from the start of the body
NextChunkFromStart(body, offset, chunk_size) ==
    SubSeq(body, 1,
           IF offset + chunk_size < Len(body) THEN chunk_size ELSE Len(body) - offset)

\* a variant that reads the rest of the body at once
NextChunkWhole(body, offset, chunk_size) == SubSeq(body, offset + 1, Len(body))

\* the next chunk of iter_content(chunk_size): up to chunk_size bytes from offset on
NextChunk(body, offset, chunk_size) ==
    SubSeq(body, offset + 1,
           IF offset + chunk_size < Len(body) THEN offset + chunk_size ELSE Len(body))

\* the handler returned a streaming Response: status 200, body from the generator
StreamResponse(content_type, disposition, content_length) ==
    [NoResponse EXCEPT !.kind = "stream", !.status = 200,
                       !.content_type = content_type, !.disposition = disposition,
                       !.content_length = content_length]

\* an exception leaves the generator after the handler has returned. The server
\* started by app.run writes the status line with the first chunk: before it, the
\* server answers with its own 500 page; after it, the 200 response is cut short.
GeneratorRaised(q) ==
    IF q.client = "gone"
    THEN [q EXCEPT !.pc = "done", !.failure = "generator", !.ended = "aborted", !.buf = <<>>]
    ELSE IF q.client_status = 0
    THEN [q EXCEPT !.pc = "done", !.failure = "generator", !.ended = "complete",
                   !.client_status = 500, !.client_kind = "page", !.buf = <<>>]
    ELSE [q EXCEPT !.pc = "done", !.failure = "generator", !.ended = "aborted", !.buf = <<>>]

\* the generator of download_direct holds the upstream response in a with block
ClosesOnExit(ep) == ep = "download"

\* the client goes away while a streamed response is pending or under way: from
\* then on the server's writes to it fail
client_disconnect(r) ==
    /\ reqs[r].pc \in {"gen_start", "relay_read", "relay_yield"}
    /\ reqs[r].client = "connected"
    /\ Put(r, [reqs[r] EXCEPT !.client = "gone"])
    /\ UNCHANGED <<fn_vars, active_downloads>>

\* iter_content reads the next chunk from the upstream body
iter_content_read(r) ==
    LET q == reqs[r] IN
    /\ q.pc = "relay_read"
    /\ q.offset < Len(q.upstream.body)
    /\ LET chunk == NextChunk(q.upstream.body, q.offset, q.chunk_size)
       IN  Put(r, [q EXCEPT !.buf = chunk, !.offset = @ + Len(chunk), !.pc = "relay_yield",
                            !.reads_after_gone = IF q.client = "gone" THEN @ + 1 ELSE @])
    /\ UNCHANGED <<fn_vars, active_downloads>>

\* the upstream body is exhausted: the for loop and the generator end, the HTTP
\* library releases the connection, and the server completes the response
iter_content_end(r) ==
    LET q == reqs[r] IN
    /\ q.pc = "relay_read"
    /\ q.offset = Len(q.upstream.body)
    /\ Put(r, IF q.client = "connected"
              THEN [q EXCEPT !.pc = "done", !.conn = "closed", !.ended = "complete",
                             !.client_status = 200, !.client_kind = "stream"]
              ELSE [q EXCEPT !.pc = "done", !.conn = "closed", !.ended = "aborted"])
    /\ UNCHANGED <<fn_vars, active_downloads>>

\* a variant whose server does not notice the failed write
yield_chunk_unnoticed(r) ==
    LET q == reqs[r] IN
    /\ q.pc = "relay_yield"
    /\ IF q.client = "connected"
       THEN Put(r, [q EXCEPT !.sent = @ \o q.buf, !.buf = <<>>, !.pc = "relay_read",
                             !.client_status = 200, !.client_kind = "stream"])
       ELSE Put(r, [q EXCEPT !.buf = <<>>, !.pc = "relay_read"])
    /\ UNCHANGED <<fn_vars, active_downloads>>

\* yield chunk: the server writes the chunk to the client. When the client is gone
\* the write fails and the server closes the generator at the yield: the with block
\* of download_direct closes the upstream response; stream_video and
\* stream_video_directly hold it in a plain variable, so the connection is closed
\* only if and when the garbage collector reclaims it.
yield_chunk(r) ==
    LET q == reqs[r] IN
    /\ q.pc = "relay_yield"
    /\ IF q.client = "connected"
       THEN Put(r, [q EXCEPT !.sent = @ \o q.buf, !.buf = <<>>, !.pc = "relay_read",
                             !.client_status = 200, !.client_kind = "stream"])
       ELSE \E after \in (IF ClosesOnExit(q.ep) THEN {"closed"} ELSE {"open", "closed"}) :
              Put(r, [q EXCEPT !.buf = <<>>, !.pc = "done", !.ended = "aborted",
                               !.conn = after])
    /\ UNCHANGED <<fn_vars, active_downloads>>

\* the upstream connection breaks while iter_content reads: the exception leaves the
\* generator; the broken connection is closed (by the with block, or by the library)
upstream_error(r) ==
    LET q == reqs[r] IN
    /\ q.pc = "relay_read"
    /\ Put(r, GeneratorRaised([q EXCEPT !.up_outcome = "broken", !.conn = "closed"]))
    /\ UNCHANGED <<fn_vars, active_downloads>>

-----------------------------------------------------------------------------
(* GET /api/download-direct/<video_id> *)

StrAudio == <<"a","u","d","i","o">>

\* lines 1527-1531
ContentTypeDownload(ext, format_id) ==
    IF EqStr(ext, StrWebm) THEN <<"v","i","d","e","o","/","w","e","b","m">>
    ELSE IF Contains(StrAudio, format_id) THEN <<"a","u","d","i","o","/","m","p","e","g">>
    ELSE <<"v","i","d","e","o","/","m","p","4">>

\* the characters \w matches, among those of the model
WordChar == Lower \cup Upper \cup Digit \cup {"_"}

\* re.sub(r'[^\w\-_\. ]', '_', s)
CleanName(s) ==
    [i \in 1..Len(s) |-> IF s[i] \in WordChar \cup {"-", "_", ".", " "} THEN s[i] ELSE "_"]

\* lines 1507-1508
Filename(title, quality, ext) ==
    CleanName(Take(title, 100)) \o <<"_">> \o quality \o <<".">> \o Text(ext)

\* a variant that reads the title without asking whether the lookup succeeded
TitleOfNoFallback(video_info, video_id) == Get(video_info.title, Null)

\* line 1504: the title of the metadata, or video_<video_id> when there is none
TitleOf(video_info, video_id) ==
    IF video_info.some THEN video_info.title
    ELSE Str(<<"v","i","d","e","o","_">> \o video_id)

\* a variant that shows the file in the browser
AttachmentInline(filename) == <<"i","n","l","i","n","e",";"," ","f","i","l","e","n","a","m","e","=">> \o <<"\"">> \o filename \o <<"\"">>

\* line 1536
Attachment(filename) == <<"a","t","t","a","c","h","m","e","n","t",";"," ","f","i","l","e","n","a","m","e","=">> \o <<"\"">> \o filename \o <<"\"">>

\* a variant that registers the download in active_downloads
download_direct_begin_tracked(r, env) ==
    /\ reqs[r].pc = "idle"
    /\ \E video_id \in env.video_ids, format_id \in env.format_ids, quality \in env.qualities :
         /\ Put(r, [reqs[r] EXCEPT !.ep = "download", !.video_id = video_id,
                                   !.format_id = format_id, !.quality = quality,
                                   !.pc = "dl_resolve"])
         /\ active_downloads' = Append(active_downloads, video_id)
    /\ UNCHANGED fn_vars

\* lines 1492-1493: the path and query parameters of the request
download_direct_begin(r, env) ==
    /\ reqs[r].pc = "idle"
    /\ \E video_id \in env.video_ids, format_id \in env.format_ids, quality \in env.qualities :
         Put(r, [reqs[r] EXCEPT !.ep = "download", !.video_id = video_id,
                                !.format_id = format_id, !.quality = quality,
                                !.pc = "dl_resolve"])
    /\ UNCHANGED <<fn_vars, active_downloads>>

\* lines 1497-1500
download_direct_resolve(r, env) ==
    /\ reqs[r].pc = "dl_resolve"
    /\ \E ans \in env.answers :
         LET q == [reqs[r] EXCEPT
                      !.ans_stream = ans, !.extract_calls = @ + 1,
                      !.untimed_calls = @ + Untimed(ydl_opts_stream),
                      !.stream_info = get_real_stream_url(reqs[r].video_id, reqs[r].format_id, ans)]
         IN  IF ~q.stream_info.some \/ ~Truthy(GetNone(q.stream_info.url))
             THEN Put(r, Answered(q, JsonError(500, <<"C","o","u","l","d"," ","n","o","t"," ","g","e","t"," ","d","o","w","n","l","o","a","d"," ","U","R","L">>), "handler"))
             ELSE Put(r, [q EXCEPT !.pc = "dl_info"])
    /\ UNCHANGED <<fn_vars, active_downloads>>

\* lines 1503-1543: the file name, the content type and the streaming Response; a title
\* that is no string raises at title[:100], which the except clause turns into a 500
download_direct_respond(r, env) ==
    /\ reqs[r].pc = "dl_info"
    /\ \E ans \in env.answers :
         LET q == [reqs[r] EXCEPT !.ans_info = ans, !.extract_calls = @ + 1,
                               !.untimed_calls = @ + Untimed(ydl_opts_info)]
             video_info == get_video_info(q.video_id, ans)
             title == TitleOf(video_info, q.video_id)
             filesize == GetNone(q.stream_info.filesize)
         IN  IF title.t # "str"
             THEN Put(r, Answered(q, JsonError(500, <<"T","y","p","e","E","r","r","o","r">>), "handler"))
             ELSE Put(r, [q EXCEPT
                    !.pc = "gen_start",
                    !.resp = StreamResponse(
                        ContentTypeDownload(q.stream_info.ext, q.format_id),
                        Attachment(Filename(title.v, q.quality, q.stream_info.ext)),
                        IF Truthy(filesize) THEN Text(filesize) ELSE <<>>)])
    /\ UNCHANGED <<fn_vars, active_downloads>>

\* lines 1520-1522, run when the server first asks the generator for a chunk:
\* requests.get raises, or answers with a status and a body; raise_for_status
\* raises on 4xx and 5xx and the with block closes the response
download_generate_open(r, env) ==
    LET q == reqs[r] IN
    /\ q.pc = "gen_start"
    /\ \/ Put(r, GeneratorRaised([q EXCEPT !.up_outcome = "refused", !.untimed_calls = @ + Untimed(requests_get_args)]))
       \/ \E status \in env.statuses, body \in env.bodies, chunk_size \in env.chunk_sizes :
            LET q1 == [q EXCEPT !.upstream = [status |-> status, body |-> body],
                                !.up_outcome = "ok", !.untimed_calls = @ + Untimed(requests_get_args), !.chunk_size = chunk_size]
            IN  IF RaisesForStatus(status)
                THEN Put(r, GeneratorRaised([q1 EXCEPT !.conn = "closed"]))
                ELSE Put(r, [q1 EXCEPT !.conn = "open", !.pc = "relay_read"])
    /\ UNCHANGED <<fn_vars, active_downloads>>

-----------------------------------------------------------------------------
(* GET /api/stream/<video_id> *)

\* a variant that looks at the format_id first
ContentTypeAudioFirst(ext, format_id) ==
    IF Contains(StrAudio, format_id) THEN <<"a","u","d","i","o","/","m","p","e","g">>
    ELSE IF EqStr(ext, StrWebm) THEN <<"v","i","d","e","o","/","w","e","b","m">>
    ELSE <<"v","i","d","e","o","/","m","p","4">>

\* lines 1574-1578
ContentTypeStream(ext, format_id) ==
    IF EqStr(ext, StrWebm) THEN <<"v","i","d","e","o","/","w","e","b","m">>
    ELSE IF Contains(StrAudio, format_id) THEN <<"a","u","d","i","o","/","m","p","e","g">>
    ELSE <<"v","i","d","e","o","/","m","p","4">>

StrInline == <<"i","n","l","i","n","e">>

\* line 1548
stream_video_begin(r, env) ==
    /\ reqs[r].pc = "idle"
    /\ \E video_id \in env.video_ids, format_id \in env.format_ids :
         Put(r, [reqs[r] EXCEPT !.ep = "stream", !.video_id = video_id,
                                !.format_id = format_id, !.pc = "st_resolve"])
    /\ UNCHANGED <<fn_vars, active_downloads>>

\* lines 1552-1555
stream_video_resolve(r, env) ==
    /\ reqs[r].pc = "st_resolve"
    /\ \E ans \in env.answers :
         LET q == [reqs[r] EXCEPT
                      !.ans_stream = ans, !.extract_calls = @ + 1,
                      !.untimed_calls = @ + Untimed(ydl_opts_stream),
                      !.stream_info = get_real_stream_url(reqs[r].video_id, reqs[r].format_id, ans)]
         IN  IF ~q.stream_info.some \/ ~Truthy(GetNone(q.stream_info.url))
             THEN Put(r, Answered(q, JsonError(500, <<"C","o","u","l","d"," ","n","o","t"," ","g","e","t"," ","s","t","r","e","a","m"," ","U","R","L">>), "handler"))
             ELSE Put(r, [q EXCEPT !.pc = "st_get"])
    /\ UNCHANGED <<fn_vars, active_downloads>>

\* lines 1567-1591: requests.get runs inside the handler, so its exception becomes a
\* JSON 500; its status code is never looked at
stream_video_get(r, env) ==
    LET q == reqs[r] IN
    /\ q.pc = "st_get"
    /\ \/ Put(r, Answered([q EXCEPT !.up_outcome = "refused", !.untimed_calls = @ + Untimed(requests_get_args)],
                          JsonError(500, <<"u","p","s","t","r","e","a","m"," ","e","r","r","o","r">>), "handler"))
       \/ \E status \in env.statuses, body \in env.bodies, chunk_size \in env.chunk_sizes :
            Put(r, [q EXCEPT
                      !.upstream = [status |-> status, body |-> body],
                      !.up_outcome = "ok", !.untimed_calls = @ + Untimed(requests_get_args), !.chunk_size = chunk_size,
                      !.conn = "open", !.pc = "relay_read",
                      !.resp = StreamResponse(
                                  ContentTypeStream(q.stream_info.ext, q.format_id),
                                  StrInline, <<>>)])
    /\ UNCHANGED <<fn_vars, active_downloads>>

-----------------------------------------------------------------------------
(* YouTubeRealDownloader.stream_video_directly(video_id, format_id) *)

\* lines 245-249
ContentTypeDirectly(ext, format_id) ==
    IF EqStr(ext, StrWebm) THEN <<"v","i","d","e","o","/","w","e","b","m">>
    ELSE IF Contains(StrAudio, format_id) THEN <<"a","u","d","i","o","/","m","p","e","g">>
    ELSE <<"v","i","d","e","o","/","m","p","4">>

\* the helper returned None
ReturnedNone(q) ==
    [q EXCEPT !.pc = "done", !.resp = [NoResponse EXCEPT !.kind = "nothing"],
              !.ended = "complete", !.failure = "handler"]

\* the call, with its two arguments
stream_video_directly_begin(r, env) ==
    /\ reqs[r].pc = "idle"
    /\ \E video_id \in env.video_ids, format_id \in env.format_ids :
         Put(r, [reqs[r] EXCEPT !.ep = "directly", !.video_id = video_id,
                                !.format_id = format_id, !.pc = "sd_resolve"])
    /\ UNCHANGED <<fn_vars, active_downloads>>

\* lines 222-225
stream_video_directly_resolve(r, env) ==
    /\ reqs[r].pc = "sd_resolve"
    /\ \E ans \in env.answers :
         LET q == [reqs[r] EXCEPT
                      !.ans_stream = ans, !.extract_calls = @ + 1,
                      !.untimed_calls = @ + Untimed(ydl_opts_stream),
                      !.stream_info = get_real_stream_url(reqs[r].video_id, reqs[r].format_id, ans)]
         IN  IF ~q.stream_info.some \/ ~Truthy(GetNone(q.stream_info.url))
             THEN Put(r, ReturnedNone(q))
             ELSE Put(r, [q EXCEPT !.pc = "sd_get"])
    /\ UNCHANGED <<fn_vars, active_downloads>>

\* lines 227-264
stream_video_directly_get(r, env) ==
    LET q == reqs[r] IN
    /\ q.pc = "sd_get"
    /\ \/ Put(r, ReturnedNone([q EXCEPT !.up_outcome = "refused", !.untimed_calls = @ + Untimed(requests_get_args)]))
       \/ \E status \in env.statuses, body \in env.bodies, chunk_size \in env.chunk_sizes :
            Put(r, [q EXCEPT
                      !.upstream = [status |-> status, body |-> body],
                      !.up_outcome = "ok", !.untimed_calls = @ + Untimed(requests_get_args), !.chunk_size = chunk_size,
                      !.conn = "open", !.pc = "relay_read",
                      !.resp = StreamResponse(
                                  ContentTypeDirectly(q.stream_info.ext, q.format_id),
                                  StrInline, <<>>)])
    /\ UNCHANGED <<fn_vars, active_downloads>>

-----------------------------------------------------------------------------
(* GET /api/get-direct-url/<video_id> *)

\* line 1596
get_direct_url_begin(r, env) ==
    /\ reqs[r].pc = "idle"
    /\ \E video_id \in env.video_ids, format_id \in env.format_ids :
         Put(r, [reqs[r] EXCEPT !.ep = "direct_url", !.video_id = video_id,
                                !.format_id = format_id, !.pc = "du_resolve"])
    /\ UNCHANGED <<fn_vars, active_downloads>>

\* lines 1600-1603
get_direct_url_resolve(r, env) ==
    /\ reqs[r].pc = "du_resolve"
    /\ \E ans \in env.answers :
         LET q == [reqs[r] EXCEPT
                      !.ans_stream = ans, !.extract_calls = @ + 1,
                      !.untimed_calls = @ + Untimed(ydl_opts_stream),
                      !.stream_info = get_real_stream_url(reqs[r].video_id, reqs[r].format_id, ans)]
         IN  IF ~q.stream_info.some \/ ~Truthy(GetNone(q.stream_info.url))
             THEN Put(r, Answered(q, JsonError(500, <<"C","o","u","l","d"," ","n","o","t"," ","g","e","t"," ","d","i","r","e","c","t"," ","U","R","L">>), "handler"))
             ELSE Put(r, [q EXCEPT !.pc = "du_info"])
    /\ UNCHANGED <<fn_vars, active_downloads>>

\* the keys of the response dictionary of lines 1608-1617
DirectUrlResponseKeys ==
    {"success", "video_id", "title", "quality", "direct_url", "url_length", "expires_in",
     "note"}

\* lines 1606-1617
get_direct_url_respond(r, env) ==
    /\ reqs[r].pc = "du_info"
    /\ \E ans \in env.answers :
         LET q == [reqs[r] EXCEPT !.ans_info = ans, !.extract_calls = @ + 1,
                               !.untimed_calls = @ + Untimed(ydl_opts_info)]
             video_info == get_video_info(q.video_id, ans)
         IN  Put(r, Answered(q, [NoResponse EXCEPT
                                   !.kind = "json", !.status = 200,
                                   !.keys = DirectUrlResponseKeys,
                                   !.title = IF video_info.some THEN video_info.title
                                             ELSE Str(<<"U","n","k","n","o","w","n">>),
                                   !.direct_url = q.stream_info.url,
                                   !.url_length = Len(q.stream_info.url.v)],
                             "none"))
    /\ UNCHANGED <<fn_vars, active_downloads>>

-----------------------------------------------------------------------------
(* GET /api/health *)

StrHealthy == <<"h","e","a","l","t","h","y">>

\* the keys of the response dictionary of lines 1625-1631
HealthResponseKeys == {"status", "service", "version", "timestamp", "features"}

\* a variant that reports the requests in flight
health_busy(r, env) ==
    /\ reqs[r].pc = "idle"
    /\ \E t \in env.times :
         Put(r, Answered([reqs[r] EXCEPT !.ep = "health"],
                         [NoResponse EXCEPT
                            !.kind = "json", !.status = 200, !.keys = HealthResponseKeys,
                            !.health = IF \E o \in DOMAIN reqs :
                                             o # r /\ reqs[o].pc \notin {"idle", "done"}
                                       THEN <<"b","u","s","y">> ELSE StrHealthy,
                            !.timestamp = t],
                         "none"))
    /\ UNCHANGED <<fn_vars, active_downloads>>

\* lines 1622-1631: the answer depends on nothing but the clock
health(r, env) ==
    /\ reqs[r].pc = "idle"
    /\ \E t \in env.times :
         Put(r, Answered([reqs[r] EXCEPT !.ep = "health"],
                         [NoResponse EXCEPT
                            !.kind = "json", !.status = 200, !.keys = HealthResponseKeys,
                            !.health = StrHealthy, !.timestamp = t],
                         "none"))
    /\ UNCHANGED <<fn_vars, active_downloads>>

-----------------------------------------------------------------------------
(* GET /api/test-download/<video_id> *)

\* the keys of the response dictionary of lines 1646-1656
TestResponseKeys ==
    {"success", "video_id", "title", "has_formats", "formats_count", "can_download",
     "sample_url_available", "url_length", "is_googlevideo"}

\* a variant that asks only whether a dictionary came back
CanDownloadAny(stream_info) == stream_info.some

\* line 1651: bool(stream_info and stream_info.get('url'))
CanDownload(stream_info) == stream_info.some /\ Truthy(GetNone(stream_info.url))

\* line 1634: the path parameter
test_download_begin(r, env) ==
    /\ reqs[r].pc = "idle"
    /\ \E video_id \in env.video_ids :
         Put(r, [reqs[r] EXCEPT !.ep = "test", !.video_id = video_id, !.pc = "td_info"])
    /\ UNCHANGED <<fn_vars, active_downloads>>

\* lines 1638-1641
test_download_info(r, env) ==
    /\ reqs[r].pc = "td_info"
    /\ \E ans \in env.answers :
         LET q == [reqs[r] EXCEPT !.ans_info = ans, !.extract_calls = @ + 1,
                               !.untimed_calls = @ + Untimed(ydl_opts_info)]
             video_info == get_video_info(q.video_id, ans)
         IN  IF ~video_info.some
             THEN Put(r, Answered(q, JsonError(404, <<"V","i","d","e","o"," ","n","o","t"," ","f","o","u","n","d">>), "handler"))
             ELSE Put(r, [q EXCEPT !.pc = "td_resolve"])
    /\ UNCHANGED <<fn_vars, active_downloads>>

\* lines 1644-1659: len() and 'in' raise TypeError on a url that is None, which the
\* except clause turns into a 500
test_download_respond(r, env) ==
    /\ reqs[r].pc = "td_resolve"
    /\ \E ans \in env.answers :
         LET q == [reqs[r] EXCEPT
                      !.ans_stream = ans, !.extract_calls = @ + 1,
                      !.untimed_calls = @ + Untimed(ydl_opts_stream),
                      !.stream_info = get_real_stream_url(reqs[r].video_id, <<"1","8">>, ans)]
             video_info == get_video_info(q.video_id, q.ans_info)
             url == q.stream_info.url
         IN  IF q.stream_info.some /\ url.t # "str"
             THEN Put(r, Answered(q, JsonError(500, <<"T","y","p","e","E","r","r","o","r">>), "handler"))
             ELSE Put(r, Answered(q, [NoResponse EXCEPT
                        !.kind = "json", !.status = 200, !.keys = TestResponseKeys,
                        !.title = video_info.title,
                        !.has_formats = Len(video_info.formats) > 0,
                        !.formats_count = Len(video_info.formats),
                        !.can_download = CanDownload(q.stream_info),
                        !.sample_url_available = q.stream_info.some,
                        !.url_length = IF q.stream_info.some THEN Len(url.v) ELSE 0,
                        !.is_googlevideo = IF q.stream_info.some
                                           THEN Contains(StrGoogleVideo, url.v) ELSE FALSE],
                     "none"))
    /\ UNCHANGED <<fn_vars, active_downloads>>

\* the response is over: the slot serves the next request
finish(r) ==
    /\ reqs[r].pc = "done"
    /\ Put(r, IdleReq)
    /\ UNCHANGED <<fn_vars, active_downloads>>

-----------------------------------------------------------------------------
(* The environment of the service: requests, extractor answers, relay targets *)

UrlA == <<"h","t","t","p","s",":","/","/","r","1",".","g","o","o","g","l","e","v","i","d","e","o",".","c","o","m","/","a">>
UrlB == <<"h","t","t","p","s",":","/","/","r","2",".","g","o","o","g","l","e","v","i","d","e","o",".","c","o","m","/","b">>
UrlC == <<"h","t","t","p","s",":","/","/","c","d","n",".","e","x","a","m","p","l","e","/","c">>

\* itag 18: video and audio in one mp4
F18 ==
    Entry([format_id |-> Str(<<"1","8">>), format_note |-> Str(<<"3","6","0","p">>), ext |-> Str(StrMp4),
           url |-> Str(UrlB), height |-> Num(360), tbr |-> Num(500),
           vcodec |-> Str(<<"a","v","c","1">>), acodec |-> Str(<<"m","p","4","a">>), filesize |-> Num(2048)])

\* itag 140: audio only, no height key
F140 ==
    Entry([format_id |-> Str(<<"1","4","0">>), ext |-> Str(<<"m","4","a">>), url |-> Str(UrlC),
           tbr |-> Num(128), vcodec |-> Str(StrNone), acodec |-> Str(<<"m","p","4","a">>)])

TitleA == <<"N","e","v","e","r"," ","G","o","n","n","a">>
TitleB == <<"a","/","b",":"," ","c","?">>

AnsTopUrl ==
    Info([url |-> Str(UrlA), ext |-> Str(StrWebm), title |-> Str(TitleA),
          formats |-> List(<<F140, F18>>)])

\* itag 140 as yt-dlp lists audio: the height key is there and holds None
AnsNullField ==
    Info([title |-> Str(TitleA), formats |-> List(<<F18, [F140 EXCEPT !.height = Null]>>)])

\* the extractor raises or returns None; a top-level url; formats only, one of them
\* a storyboard entry without url; a list element that is no dictionary; a None
\* height; no formats key; an empty top-level url
Answers ==
    { InfoRaises, InfoNone, AnsTopUrl,
      Info([title |-> Str(TitleB),
            formats |-> List(<<F140,
                               Entry([format_id |-> Str(<<"s","b","0">>),
                                      ext |-> Str(<<"m","h","t","m","l">>)]),
                               F18>>)]),
      Info([title |-> Str(TitleA), formats |-> List(<<F18, NonMapping>>)]),
      AnsNullField,
      Info([title |-> Str(TitleB)]),
      Info([url |-> Str(<<>>)]) }

VideoId == <<"d","Q","w","4","w","9","W","g","X","c","Q">>

RouteUrls ==
    { <<>>,
      <<"h","t","t","p","s",":","/","/","y","o","u","t","u",".","b","e","/">> \o VideoId,
      <<"h","t","t","p","s",":","/","/","w","w","w",".","y","o","u","t","u","b","e",".","c","o","m","/","w","a","t","c","h","?","v","=">> \o VideoId \o <<"&","t","=","1">>,
      VideoId,
      <<"n","o","t"," ","a"," ","u","r","l">>,
      <<"h","t","t","p","s",":","/","/","y","o","u","t","u",".","b","e","/","s","h","o","r","t">> }

FormatIds == { <<"b","e","s","t">>, <<"1","8">>, <<"b","e","s","t","a","u","d","i","o">> }

Qualities == { <<"U","n","k","n","o","w","n">>, <<"H", "D", "\"">> }

Statuses == {200, 206, 404, 503}

\* bounds of the relay: body length, chunk size
MaxBody == 2
MaxChunk == 2

\* bodies of up to MaxBody bytes
Bodies == UNION { [1..n -> {1, 2}] : n \in 0..MaxBody }

FullEnv ==
    [urls |-> RouteUrls, video_ids |-> {VideoId, <<"a","b","c">>}, format_ids |-> FormatIds,
     qualities |-> Qualities, answers |-> Answers, statuses |-> Statuses,
     bodies |-> Bodies, chunk_sizes |-> 1..MaxChunk, times |-> {1, 2}]

\* a smaller environment for two requests served at once
PairEnv ==
    [urls |-> {<<>>, VideoId}, video_ids |-> {VideoId}, format_ids |-> {<<"1","8">>},
     qualities |-> {<<"U","n","k","n","o","w","n">>}, answers |-> {InfoRaises, AnsTopUrl, AnsNullField},
     statuses |-> {200, 404},
     bodies |-> { b \in Bodies : Len(b) = MaxBody /\ b[1] = 1 /\ b[MaxBody] = 2 },
     chunk_sizes |-> {MaxChunk - 1}, times |-> {1}]

-----------------------------------------------------------------------------
(* The service *)

ServerInit(slots) ==
    /\ reqs = [r \in slots |-> IdleReq]
    /\ active_downloads = <<>>
    /\ fn_in = <<>>
    /\ fn_parts = [scheme |-> <<>>, shape |-> "bare", token |-> <<>>, tail |-> <<>>]
    /\ fn_out = None
    /\ fn_pc = "off"

Step(r, env) ==
    \/ get_video_info_route_begin(r, env)
    \/ get_video_info_route_respond(r, env)
    \/ download_direct_begin(r, env)
    \/ download_direct_resolve(r, env)
    \/ download_direct_respond(r, env)
    \/ download_generate_open(r, env)
    \/ stream_video_begin(r, env)
    \/ stream_video_resolve(r, env)
    \/ stream_video_get(r, env)
    \/ stream_video_directly_begin(r, env)
    \/ stream_video_directly_resolve(r, env)
    \/ stream_video_directly_get(r, env)
    \/ get_direct_url_begin(r, env)
    \/ get_direct_url_resolve(r, env)
    \/ get_direct_url_respond(r, env)
    \/ health(r, env)
    \/ test_download_begin(r, env)
    \/ test_download_info(r, env)
    \/ test_download_respond(r, env)
    \/ iter_content_read(r)
    \/ yield_chunk(r)
    \/ iter_content_end(r)
    \/ upstream_error(r)
    \/ client_disconnect(r)
    \/ finish(r)

\* one request at a time, the whole environment
Slots == {1}
Init == ServerInit(Slots)
Next == \E r \in Slots : Step(r, FullEnv)
Spec == Init /\ [][Next]_vars

\* the steps of the server's thread that runs a generator: opening the upstream
\* request, reading a chunk, handing it on, ending
Generate(r, env) ==
    \/ download_generate_open(r, env)
    \/ iter_content_read(r)
    \/ yield_chunk(r)
    \/ iter_content_end(r)

\* the same service, the thread of a started generator running on: it is never
\* suspended for ever, since every upstream call it blocks in has the timeout TIMEOUT
SpecLive == Init /\ [][Next]_vars /\ WF_vars(\E r \in Slots : Generate(r, FullEnv))

\* two requests served at once
PairSlots == {1, 2}
InitPair == ServerInit(PairSlots)
SpecPair == InitPair /\ [][\E r \in PairSlots : Step(r, PairEnv)]_vars

-----------------------------------------------------------------------------
(* Arguments for parse_format and get_video_info: a format list of one entry, as *)
(* yt-dlp lists it. A key is absent, holds None, or holds a value; yt-dlp gives   *)
(* heights as int and bitrates (tbr, in kbit/s) as float.                        *)

\* format_note, height, tbr, vcodec, acodec and url each absent, None or given
FmtEntries ==
    { Entry([format_id |-> Str(<<"1","4","0">>), ext |-> Str(<<"m","4","a">>), format_note |-> n,
             height |-> h, tbr |-> t, vcodec |-> v, acodec |-> a, url |-> u]) :
        n \in { Absent, Null, Str(<<>>), Str(<<"m","e","d","i","u","m">>) },
        h \in { Absent, Null, Num(0), Num(360) },
        t \in { Absent, Null, Num(0), Num(128), Float(128) },
        v \in { Absent, Null, Str(StrNone), Str(<<"a","v","c","1">>) },
        a \in { Absent, Str(StrNone), Str(<<"m","p","4","a">>) },
        u \in { Absent, Str(UrlC) } }

\* the longest format list that is sorted
MaxSorted == 3

\* the lists of one entry; the lists of one entry with every size, exact and
\* approximate, around the unit boundaries; and the lists of up to MaxSorted entries
\* of the three types, of two heights and two bitrates, audio entries without height,
\* and two entries without a url to relay
FmtInit ==
    /\ fn_in \in
         { <<e>> : e \in FmtEntries } \cup
         { <<Entry([format_id |-> Str(<<"1","8">>), url |-> Str(UrlB),
                    filesize |-> s, filesize_approx |-> a])>> :
             s \in { Absent, Null } \cup
                   { Num(n) : n \in { 0, 1, KiB - 1, KiB, KiB * KiB - 1, KiB * KiB,
                                      KiB * KiB * KiB - 1, KiB * KiB * KiB, 2147483647 } },
             a \in { Absent, Null, Num(0), Num(KiB - 1), Num(2 * KiB), Num(KiB * KiB * KiB) } } \cup
         UNION { [1..n ->
                    { Entry([format_id |-> Str(<<"1","8">>), url |-> Str(UrlB),
                             height |-> Num(x[1]), tbr |-> Num(x[2]),
                             vcodec |-> Str(<<"a","v","c","1">>), acodec |-> Str(x[3])]) :
                        x \in { <<360, 128, <<"m","p","4","a">> >>, <<360, 500, <<"m","p","4","a">> >>,
                                <<720, 128, <<"m","p","4","a">> >>, <<360, 500, StrNone>>,
                                <<720, 128, StrNone>> } } \cup
                    { F140, [F140 EXCEPT !.tbr = Num(500)],
                      Entry([format_id |-> Str(<<"s","b","0">>), height |-> Num(720)]),
                      Entry([format_id |-> Str(<<"1","8">>), url |-> Str(<<>>), height |-> Num(720)]) }] :
                 n \in 2..MaxSorted }
    /\ fn_parts = [scheme |-> <<>>, shape |-> "none", token |-> <<>>, tail |-> <<>>]
    /\ fn_out = None
    /\ fn_pc = "ready"
    /\ reqs = <<>>
    /\ active_downloads = <<>>

\* one call of YouTubeRealDownloader.parse_format(fmt) on the entry of the list
CallParseFormat ==
    /\ fn_pc = "ready"
    /\ fn_out' = parse_format(fn_in[1])
    /\ fn_pc' = "parsed"
    /\ UNCHANGED <<fn_in, fn_parts, reqs, active_downloads>>

\* one call of YouTubeRealDownloader.get_video_info(video_id), the extractor
\* answering with the format list
CallGetVideoInfo ==
    /\ fn_pc = "ready"
    /\ fn_out' = get_video_info(VideoId, Info([formats |-> List(fn_in)]))
    /\ fn_pc' = "resolved"
    /\ UNCHANGED <<fn_in, fn_parts, reqs, active_downloads>>

\* parse_format and get_video_info on every entry
SpecFmt == FmtInit /\ [][CallParseFormat \/ CallGetVideoInfo]_vars

-----------------------------------------------------------------------------
(* The two extraction helpers on the answers of ydl.extract_info *)

\* the longest format list of the answers
MaxFormats == 2

\* the answers of the service, and every dictionary with or without a top-level url
\* (None included) and with or without a formats value: None, or a list of up to
\* MaxFormats entries of itag 18 or 140, with or without a url of their own
HelperInit ==
    /\ fn_in \in Answers \cup
         { Info([url |-> u, formats |-> f]) :
             u \in { Absent, Null, Str(UrlA) },
             f \in { Absent, Null } \cup
                   { List(l) : l \in UNION { [1..n -> { Entry([format_id |-> Str(i), url |-> v]) :
                                                          i \in { <<"1","8">>, <<"1","4","0">> },
                                                          v \in { Absent, Str(UrlB), Str(UrlC) } }] :
                                              n \in 0..MaxFormats } } }
    /\ fn_parts \in { [format_id |-> f] : f \in FormatIds }
    /\ fn_out = None
    /\ fn_pc = "ready"
    /\ reqs = <<>>
    /\ active_downloads = <<>>

\* one call of YouTubeRealDownloader.get_real_stream_url(video_id, format_id)
CallGetRealStreamUrl ==
    /\ fn_pc = "ready"
    /\ fn_out' = get_real_stream_url(VideoId, fn_parts.format_id, fn_in)
    /\ fn_pc' = "stream"
    /\ UNCHANGED <<fn_in, fn_parts, reqs, active_downloads>>

\* one call of YouTubeRealDownloader.get_video_info(video_id)
CallGetVideoInfoHelper ==
    /\ fn_pc = "ready"
    /\ fn_out' = get_video_info(VideoId, fn_in)
    /\ fn_pc' = "info"
    /\ UNCHANGED <<fn_in, fn_parts, reqs, active_downloads>>

SpecHelper == HelperInit /\ [][CallGetRealStreamUrl \/ CallGetVideoInfoHelper]_vars

-----------------------------------------------------------------------------
(* The content type each relay path chooses for an extension and a format_id *)

\* the ext of a stream_info (a string, or the None of a key that holds it) and the
\* format parameter of a request; no path has chosen yet
TypeInit ==
    /\ fn_in \in [ext : { Str(StrMp4), Str(StrWebm), Str(<<"m","4","a">>), Str(<<"W","E","B","M">>),
                          Str(<<"w","e","b","m","2">>), Str(<<>>), Null },
                  format_id : FormatIds \cup { <<"1","4","0">>, <<"a","u","d","i","o">>,
                                               <<"2","5","1","-","a","u","d","i","o","-","h","q">>,
                                               <<"A","u","d","i","o">>, <<"a","u","d","i">>, <<>> }]
    /\ fn_parts = <<>>
    /\ fn_out = [download |-> None, stream |-> None, directly |-> None]
    /\ fn_pc = "ready"
    /\ reqs = <<>>
    /\ active_downloads = <<>>

\* lines 1527-1531, in download_direct
ChooseTypeDownload ==
    /\ fn_out.download = None
    /\ fn_out' = [fn_out EXCEPT !.download = ContentTypeDownload(fn_in.ext, fn_in.format_id)]
    /\ UNCHANGED <<fn_in, fn_parts, fn_pc, reqs, active_downloads>>

\* lines 1574-1578, in stream_video
ChooseTypeStream ==
    /\ fn_out.stream = None
    /\ fn_out' = [fn_out EXCEPT !.stream = ContentTypeStream(fn_in.ext, fn_in.format_id)]
    /\ UNCHANGED <<fn_in, fn_parts, fn_pc, reqs, active_downloads>>

\* lines 245-249, in stream_video_directly
ChooseTypeDirectly ==
    /\ fn_out.directly = None
    /\ fn_out' = [fn_out EXCEPT !.directly = ContentTypeDirectly(fn_in.ext, fn_in.format_id)]
    /\ UNCHANGED <<fn_in, fn_parts, fn_pc, reqs, active_downloads>>

SpecType == TypeInit /\ [][ChooseTypeDownload \/ ChooseTypeStream \/ ChooseTypeDirectly]_vars

-----------------------------------------------------------------------------
(* Properties of extract_video_id, checked under SpecId *)

\* the argument is one of the accepted shapes around an 11-character token: a URL
\* whose token is followed by nothing or by a character outside the class, or the
\* token alone
CarriesToken(p) ==
    /\ p.shape \in AcceptedShapes
    /\ p.token \in Tokens11
    /\ p.tail \in CleanTails
    /\ p.shape = "bare" => p.tail = <<>>

ShortUrlExample == <<"h","t","t","p","s",":","/","/","y","o","u","t","u",".","b","e","/","d","Q","w","4","w","9","W","g","X","c","Q">>

\* C1: for every 11-character token t, extract_video_id returns exactly t for the
\* watch, youtu.be, embed and shorts URL carrying t and for the bare token t; and
\* "https://youtu.be/dQw4w9WgXcQ" yields "dQw4w9WgXcQ".
C1_AcceptedShapesYieldToken ==
    /\ (fn_pc = "done" /\ CarriesToken(fn_parts)) => fn_out = fn_parts.token
    /\ (fn_pc = "done" /\ fn_in = ShortUrlExample) => fn_out = VideoId

C1_Witness ==
    /\ fn_pc = "done"
    /\ fn_parts.shape = "shorts"
    /\ CarriesToken(fn_parts)
    /\ fn_parts.tail # <<>>
    /\ fn_out = fn_parts.token

\* C2: whenever extract_video_id returns a value, the value is exactly 11 identifier
\* characters and is the complete identifier segment of the argument, never a prefix
\* of a longer token and never the argument with a trailing newline.
C2_NeverPartialIdentifier ==
    (fn_pc = "done" /\ fn_out # None) =>
        /\ Len(fn_out) = IdLen
        /\ AllIdChars(fn_out)
        /\ fn_out = Segment(fn_parts)

-----------------------------------------------------------------------------
(* Properties of the relay, checked under Spec *)

Relayed(q) == q.ep \in {"download", "stream", "directly"} /\ q.upstream.status # 0

\* C3: when the relay target answers with a status other than 200, the client is
\* never given a successful (2xx) response that carries upstream bytes.
C3_NoSuccessForNon200Upstream ==
    \A r \in DOMAIN reqs :
        (Relayed(reqs[r]) /\ reqs[r].upstream.status # 200) =>
            ~(reqs[r].client_status \in 200..299 /\ reqs[r].sent # <<>>)

IsPrefix(s, t) == Len(s) <= Len(t) /\ s = SubSeq(t, 1, Len(s))

\* C4: the chunks handed to the client, concatenated, are at every moment the bytes
\* read from the upstream body so far, in order; and when the relay ends with the
\* upstream body exhausted, they are the upstream body exactly.
C4_RelayIsByteIdentical ==
    \A r \in DOMAIN reqs :
        LET q == reqs[r] IN
        /\ Relayed(q) => IsPrefix(q.sent, q.upstream.body)
        /\ (Relayed(q) /\ q.client = "connected" /\ q.pc \in {"relay_read", "relay_yield"})
               => q.sent \o q.buf = SubSeq(q.upstream.body, 1, q.offset)
        /\ (Relayed(q) /\ q.pc = "done" /\ q.ended = "complete" /\ q.client_kind = "stream")
               => q.sent = q.upstream.body

\* a body of two different bytes relayed to the end in chunks of one byte
C4_Witness ==
    \E r \in DOMAIN reqs :
        LET q == reqs[r] IN
        /\ Relayed(q) /\ q.pc = "done" /\ q.ended = "complete" /\ q.client_kind = "stream"
        /\ Len(q.upstream.body) >= 2 /\ q.chunk_size = 1
        /\ q.upstream.body[1] # q.upstream.body[2]
        /\ q.sent = q.upstream.body

\* C5: no terminated streaming request leaves its upstream connection open, whether
\* the stream ended normally, the client went away or the upstream failed.
C5_ConnectionClosedOnEveryExit ==
    \A r \in DOMAIN reqs :
        (reqs[r].ep \in {"download", "stream", "directly"} /\ reqs[r].pc = "done")
            => reqs[r].conn # "open"

-----------------------------------------------------------------------------
(* Properties of the request handlers, checked under Spec *)

Endpoints == {"info", "download", "stream", "direct_url"}

\* C6: every request of an endpoint that ends after an internal failure has given
\* the client a JSON error body with a message and status 400, 404 or 500; and no
\* client is left with a success response that was cut short.
C6_FailuresBecomeJsonErrors ==
    \A r \in DOMAIN reqs :
        LET q == reqs[r] IN
        /\ (q.ep \in Endpoints /\ q.pc = "done" /\ q.failure # "none" /\ q.client = "connected")
              => /\ q.client_kind = "json_error"
                 /\ q.client_status \in {400, 404, 500}
                 /\ q.resp.error # <<>>
        /\ (q.ep \in Endpoints /\ q.pc = "done" /\ q.client = "connected")
              => ~(q.client_status \in 200..299 /\ q.ended = "aborted")

\* the extractor answered with a format list of dictionaries, none of which has the
\* requested format_id, and with no top-level url
FormatAbsent(q) ==
    /\ q.ans_stream.tag = "info"
    /\ ~HasKey(q.ans_stream.url)
    /\ q.ans_stream.formats.t = "list"
    /\ \A k \in 1..Len(q.ans_stream.formats.v) :
          /\ q.ans_stream.formats.v[k].mapping
          /\ ~EqStr(GetNone(q.ans_stream.formats.v[k].format_id), q.format_id)

\* C7: when the requested format is absent from the video's format list, the
\* download, stream and direct-URL endpoints answer 404.
C7_AbsentFormatIs404 ==
    \A r \in DOMAIN reqs :
        LET q == reqs[r] IN
        (q.ep \in {"download", "stream", "direct_url"} /\ q.pc = "done" /\ FormatAbsent(q))
            => q.client_status = 404

\* C8: a request to get-video-info whose url parameter is missing or empty, or holds
\* no identifier, is answered 400 with a JSON error at once, and extract_info is
\* never called for it.
C8_BadUrlIs400WithoutExtraction ==
    \A r \in DOMAIN reqs :
        LET q == reqs[r] IN
        (q.ep = "info" /\ (q.url = <<>> \/ extract_video_id(q.url) = None))
            => /\ q.pc = "done"
               /\ q.client_status = 400
               /\ q.client_kind = "json_error"
               /\ q.resp.error # <<>>
               /\ q.extract_calls = 0
               /\ q.ans_info = NoAnswer

C8_Witness ==
    \E r \in DOMAIN reqs :
        /\ reqs[r].ep = "info" /\ reqs[r].pc = "done"
        /\ reqs[r].url # <<>> /\ extract_video_id(reqs[r].url) = None
        /\ reqs[r].client_status = 400

\* an entry the resolver cannot digest: no dictionary, or a height or tbr of None
Malformed(fmt) == ~fmt.mapping \/ fmt.height.t = "null" \/ fmt.tbr.t = "null"

ValidEntries(fmts) == { k \in 1..Len(fmts) : ~Malformed(fmts[k]) /\ Truthy(GetNone(fmts[k].url)) }

\* C9: a format list with one malformed entry among valid ones does not fail the
\* request: the info endpoint answers 200 and returns every valid entry.
C9_MalformedEntrySkipped ==
    \A r \in DOMAIN reqs :
        LET q == reqs[r] IN
        (/\ q.ep = "info" /\ q.pc = "done"
         /\ q.ans_info.tag = "info" /\ q.ans_info.formats.t = "list"
         /\ Cardinality({ k \in 1..Len(q.ans_info.formats.v) :
                            Malformed(q.ans_info.formats.v[k]) }) = 1
         /\ ValidEntries(q.ans_info.formats.v) # {})
            => /\ q.client_status = 200
               /\ \A k \in ValidEntries(q.ans_info.formats.v) :
                     \E j \in 1..Len(q.resp.payload.formats) :
                         q.resp.payload.formats[j] = parse_format(q.ans_info.formats.v[k])

-----------------------------------------------------------------------------
(* Independence of requests, checked under SpecPair *)

\* what a request is given: its parameters, the extractor's answers, the relay
\* target's answer and how far it got, and whether the client stayed
SameInputs(p, q) ==
    /\ p.ep = q.ep /\ p.url = q.url /\ p.video_id = q.video_id
    /\ p.format_id = q.format_id /\ p.quality = q.quality
    /\ p.ans_stream = q.ans_stream /\ p.ans_info = q.ans_info
    /\ p.upstream = q.upstream /\ p.up_outcome = q.up_outcome
    /\ p.chunk_size = q.chunk_size /\ p.offset = q.offset
    /\ p.client = q.client

SameOutcome(p, q) ==
    /\ p.resp = q.resp /\ p.stream_info = q.stream_info
    /\ p.client_status = q.client_status /\ p.client_kind = q.client_kind
    /\ p.ended = q.ended /\ p.failure = q.failure
    /\ p.client = "connected" => p.sent = q.sent

\* C10: active_downloads stays empty whatever requests are served and however they
\* interleave; two requests given the same inputs and upstream answers end with the
\* same response, whatever else was served meanwhile; and every request that resolved
\* a stream URL made its own extractor call.
C10_NoStateAcrossRequests ==
    /\ active_downloads = <<>>
    /\ \A r1, r2 \in DOMAIN reqs :
          (reqs[r1].pc = "done" /\ reqs[r2].pc = "done" /\ SameInputs(reqs[r1], reqs[r2]))
              => SameOutcome(reqs[r1], reqs[r2])
    /\ \A r \in DOMAIN reqs : reqs[r].stream_info.some => reqs[r].extract_calls >= 1

\* two downloads of the same video, relayed to the end, while the other was served
C10_Witness ==
    /\ active_downloads = <<>>
    /\ reqs[1].pc = "done" /\ reqs[2].pc = "done"
    /\ reqs[1].ep = "download" /\ reqs[2].ep = "download"
    /\ SameInputs(reqs[1], reqs[2])
    /\ reqs[1].ended = "complete" /\ reqs[1].client_kind = "stream"
    /\ reqs[1].sent # <<>>

-----------------------------------------------------------------------------
(* Properties of the response headers, checked under Spec *)

StrAttachmentName == <<"a","t","t","a","c","h","m","e","n","t",";"," ","f","i","l","e","n","a","m","e","=">> \o <<"\"">>

\* the disposition is attachment; filename="<name>" with a name that is not empty
IsAttachment(d) ==
    /\ LitAt(StrAttachmentName, d, 1)
    /\ Len(d) > Len(StrAttachmentName) + 1
    /\ d[Len(d)] = "\""

MediaTypes == { <<"v","i","d","e","o","/","m","p","4">>, <<"v","i","d","e","o","/","w","e","b","m">>, <<"a","u","d","i","o","/","m","p","e","g">> }

\* C11: every streaming (successful) response of download-direct carries a
\* Content-Disposition of attachment with a file name; every streaming response of
\* the stream endpoint carries a media Content-Type and the disposition inline,
\* never attachment.
C11_DispositionHeaders ==
    \A r \in DOMAIN reqs :
        LET q == reqs[r] IN
        /\ (q.ep = "download" /\ q.resp.kind = "stream")
              => /\ IsAttachment(q.resp.disposition)
                 /\ q.resp.content_type \in MediaTypes
        /\ (q.ep = "stream" /\ q.resp.kind = "stream")
              => /\ q.resp.disposition = StrInline
                 /\ ~LitAt(<<"a","t","t","a","c","h","m","e","n","t">>, q.resp.disposition, 1)
                 /\ q.resp.content_type \in MediaTypes
                 /\ (q.stream_info.ext = Str(StrWebm)) <=> (q.resp.content_type = <<"v","i","d","e","o","/","w","e","b","m">>)

\* a download whose file name carries the quality parameter, relayed to the client
C11_Witness ==
    \E r \in DOMAIN reqs :
        LET q == reqs[r] IN
        /\ q.ep = "download" /\ q.resp.kind = "stream"
        /\ q.client_status = 200 /\ q.sent # <<>>
        /\ IsAttachment(q.resp.disposition)
        /\ q.quality # <<"U","n","k","n","o","w","n">>

-----------------------------------------------------------------------------
(* Properties of parse_format and get_video_info, checked under SpecFmt *)

\* the entry has an explicit label: a non-empty format_note
LabelGiven(e) == e.format_note.t = "str" /\ e.format_note.v # <<>>

\* the entry has the height or bitrate f: a number other than 0
NumberGiven(f) == f.t \in {"num", "float"} /\ f.v # 0

\* C12: the quality label parse_format returns is the explicit label when there is
\* one; otherwise the height followed by "p" when there is a height; otherwise the
\* bitrate followed by "kbps" when there is a bitrate; and "Unknown" only when
\* there is none of the three.
C12_QualityLabelPreference ==
    fn_pc = "parsed" =>
        LET e == fn_in[1] IN
        /\ LabelGiven(e) => fn_out.quality = e.format_note.v
        /\ (~LabelGiven(e) /\ NumberGiven(e.height))
              => fn_out.quality = Text(e.height) \o <<"p">>
        /\ (~LabelGiven(e) /\ ~NumberGiven(e.height) /\ NumberGiven(e.tbr))
              => fn_out.quality = Text(e.tbr) \o <<"k","b","p","s">>
        /\ fn_out.quality = <<"U","n","k","n","o","w","n">>
              => (~LabelGiven(e) /\ ~NumberGiven(e.height) /\ ~NumberGiven(e.tbr))

\* an entry with a height and a bitrate and no label is labelled by its height
C12_Witness ==
    /\ fn_pc = "parsed"
    /\ ~LabelGiven(fn_in[1])
    /\ fn_in[1].height = Num(360) /\ NumberGiven(fn_in[1].tbr)
    /\ fn_out.quality = <<"3","6","0","p">>

\* the format list is the single entry of itag 140: audio and no video, a bitrate
\* of 128 kbit/s (128000 bits/s), no label, no height, and a url
SingleAudio140(fmts) ==
    /\ Len(fmts) = 1
    /\ fmts[1].format_id = Str(<<"1","4","0">>)
    /\ fmts[1].vcodec = Str(StrNone)
    /\ fmts[1].acodec = Str(<<"m","p","4","a">>)
    /\ fmts[1].format_note.t \in {"absent", "null"}
    /\ fmts[1].height.t \in {"absent", "null"}
    /\ fmts[1].tbr \in {Num(128), Float(128)}
    /\ fmts[1].url = Str(UrlC)

\* C13: a format list of the single audio-only entry of itag 140 with a bitrate of
\* 128000 bits/s, no label and no height resolves to exactly one descriptor, of
\* type audio, whose quality label is exactly "128kbps".
C13_Audio140Is128kbps ==
    (fn_pc = "resolved" /\ SingleAudio140(fn_in)) =>
        /\ fn_out.some
        /\ Len(fn_out.formats) = 1
        /\ fn_out.formats[1].type = "audio"
        /\ fn_out.formats[1].quality = <<"1","2","8","k","b","p","s">>

\* the entry declares a stream of the kind: its codec key names a codec
Declares(f) == f.t = "str" /\ f.v # <<>> /\ f.v # StrNone

\* C14: the type of a descriptor is video+audio exactly when the entry declares
\* video and audio, video exactly when it declares video and no audio, audio
\* exactly when it declares audio and no video; an entry that declares neither is
\* never given the type audio.
C14_TypeAgreesWithDeclaredStreams ==
    fn_pc = "parsed" =>
        LET e == fn_in[1] IN
        /\ fn_out.type \in {"video+audio", "video", "audio"}
        /\ fn_out.type = "video+audio" <=> (Declares(e.vcodec) /\ Declares(e.acodec))
        /\ fn_out.type = "video" <=> (Declares(e.vcodec) /\ ~Declares(e.acodec))
        /\ fn_out.type = "audio" <=> (~Declares(e.vcodec) /\ Declares(e.acodec))

-----------------------------------------------------------------------------
(* Properties of the JSON responses, checked under Spec *)

IsList(x) == DOMAIN x = 1..Len(x)

\* C15: a successful response of get-video-info is an object with the fields
\* video_id, title, channel, duration, thumbnails and formats, where formats is a
\* list and video_id is the identifier extracted from the url parameter.
C15_InfoResponseFields ==
    \A r \in DOMAIN reqs :
        LET q == reqs[r] IN
        (q.ep = "info" /\ q.pc = "done" /\ q.client_status = 200) =>
            /\ q.resp.kind = "json"
            /\ {"video_id", "title", "channel", "duration", "thumbnails", "formats"}
                   \subseteq q.resp.keys
            /\ IsList(q.resp.payload.formats)
            /\ q.resp.payload.video_id = extract_video_id(q.url)

\* C15, amended: a successful response of get-video-info is an object with the
\* fields video_id, title, channel, duration, thumbnail and formats, where formats
\* is a list and video_id is the identifier extracted from the url parameter.
C15_InfoResponseFieldsAmended ==
    \A r \in DOMAIN reqs :
        LET q == reqs[r] IN
        (q.ep = "info" /\ q.pc = "done" /\ q.client_status = 200) =>
            /\ q.resp.kind = "json"
            /\ {"video_id", "title", "channel", "duration", "thumbnail", "formats"}
                   \subseteq q.resp.keys
            /\ IsList(q.resp.payload.formats)
            /\ q.resp.payload.video_id = extract_video_id(q.url)

\* an info request for a youtu.be URL answered with two descriptors
C15_Witness ==
    \E r \in DOMAIN reqs :
        LET q == reqs[r] IN
        /\ q.ep = "info" /\ q.pc = "done" /\ q.client_status = 200
        /\ q.url # VideoId /\ q.resp.payload.video_id = VideoId
        /\ Len(q.resp.payload.formats) = 2
        /\ "formats" \in q.resp.keys

-----------------------------------------------------------------------------
(* Properties of the relay's buffer, checked under Spec *)

\* C16: the relay holds at most one chunk of at most chunk_size bytes: in every
\* state of a streaming request the bytes read from upstream and not yet handed to
\* the client are the one chunk held, of at most chunk_size bytes, however long the
\* upstream body is.
C16_AtMostOneChunkHeld ==
    \A r \in DOMAIN reqs :
        LET q == reqs[r] IN
        (q.ep \in {"download", "stream", "directly"} /\ q.up_outcome # "none") =>
            /\ Len(q.buf) <= q.chunk_size
            /\ q.pc \in {"relay_read", "relay_yield"}
                  => /\ q.offset - Len(q.sent) = Len(q.buf)
                     /\ q.offset - Len(q.sent) <= q.chunk_size

\* a body longer than the chunk size, the relay holding a full chunk after one
\* was handed on
C16_Witness ==
    \E r \in DOMAIN reqs :
        LET q == reqs[r] IN
        /\ q.ep \in {"download", "stream"} /\ q.pc = "relay_yield"
        /\ Len(q.upstream.body) > q.chunk_size
        /\ Len(q.sent) >= q.chunk_size
        /\ Len(q.buf) = q.chunk_size

-----------------------------------------------------------------------------
(* Properties of the health endpoint, checked under SpecPair *)

\* C17: every request to health is answered with a JSON object whose status is
\* "healthy" and which has a timestamp, whatever the other requests in flight are
\* doing and whatever failed before; and a health request can be served in every
\* state in which a request can be taken.
C17_HealthAlwaysHealthy ==
    \A r \in DOMAIN reqs :
        LET q == reqs[r] IN
        /\ q.ep = "health" =>
              /\ q.pc = "done" /\ q.ended = "complete" /\ q.failure = "none"
              /\ q.client_status = 200 /\ q.client_kind = "json"
              /\ {"status", "timestamp"} \subseteq q.resp.keys
              /\ q.resp.health = StrHealthy
              /\ q.resp.timestamp \in PairEnv.times
        /\ q.pc = "idle" => ENABLED health(r, PairEnv)

\* health answered while the other request is relaying with its client gone
C17_Witness ==
    /\ reqs[2].ep = "health" /\ reqs[2].pc = "done"
    /\ reqs[2].resp.health = StrHealthy
    /\ reqs[1].pc = "relay_yield" /\ reqs[1].client = "gone"

-----------------------------------------------------------------------------
(* Properties of the relay after a disconnect, checked under SpecLive *)

\* C18: once the client of a streaming request is gone, at most one further chunk
\* is read from upstream, and the request comes to an end.
C18_DisconnectStopsReads ==
    /\ [](\A r \in Slots : reqs[r].reads_after_gone <= 1)
    /\ \A r \in Slots : (reqs[r].client = "gone") ~> (reqs[r].pc = "done")

\* a request ended after its client went away, one chunk read since, and upstream
\* bytes left unread
C18_Witness ==
    \E r \in DOMAIN reqs :
        LET q == reqs[r] IN
        /\ q.pc = "done" /\ q.client = "gone" /\ q.ended = "aborted"
        /\ q.reads_after_gone = 1
        /\ q.offset < Len(q.upstream.body)

-----------------------------------------------------------------------------
(* Properties of the identifiers handed to the extractor, checked under Spec *)

ShapeChecked(video_id) == Len(video_id) = IdLen /\ AllIdChars(video_id)

\* C19: no endpoint calls get_real_stream_url or get_video_info (and so the
\* extractor) with a video_id that is not exactly 11 characters of [A-Za-z0-9_-].
C19_OnlyShapeCheckedIdsExtracted ==
    \A r \in DOMAIN reqs :
        LET q == reqs[r] IN
        (q.ep \in {"info", "download", "stream", "direct_url", "test"} /\ q.extract_calls >= 1)
            => ShapeChecked(q.video_id)

-----------------------------------------------------------------------------
(* Properties of the pattern order of extract_video_id, checked under SpecOrder *)

\* the place of a URL shape in the order watch, youtu.be, embed, shorts
PatternRank(shape) ==
    CASE shape = "watch" -> 1 [] shape = "short" -> 2 [] shape = "embed" -> 3
      [] shape = "shorts" -> 4

\* C20: for an argument that holds two URLs, extract_video_id returns the
\* identifier of the URL whose pattern comes first in the order watch, youtu.be,
\* embed, shorts, wherever that URL stands in the argument; when both URLs have
\* the same pattern, it returns the identifier of the first.
C20_EarliestPatternWins ==
    fn_pc = "done" =>
        fn_out = IF PatternRank(fn_parts.second.shape) < PatternRank(fn_parts.first.shape)
                 THEN fn_parts.second.token
                 ELSE fn_parts.first.token

\* a shorts URL followed by a watch URL with another identifier: the later one wins
C20_Witness ==
    /\ fn_pc = "done"
    /\ fn_parts.first.shape = "shorts" /\ fn_parts.second.shape = "watch"
    /\ fn_parts.first.token # fn_parts.second.token
    /\ fn_out = fn_parts.second.token

-----------------------------------------------------------------------------
(* Properties of the network calls, checked under Spec *)

\* C21: every network call a request issues, the extraction calls and the relay
\* GET alike, is issued with a timeout of its own (so that a silent upstream
\* cannot keep the request from ending).
C21_EveryCallHasTimeout ==
    \A r \in DOMAIN reqs : reqs[r].untimed_calls = 0

-----------------------------------------------------------------------------
(* Properties of the download's file name, checked under Spec *)

\* the file name between the quotes of an attachment disposition
HeaderFilename(d) == SubSeq(d, Len(StrAttachmentName) + 1, Len(d) - 1)

\* C22: the file name download_direct places between the quotes of the
\* Content-Disposition header holds no double quote, carriage return, line feed,
\* slash or backslash, whatever the title and the quality parameter are.
C22_FilenameIsClean ==
    \A r \in DOMAIN reqs :
        LET q == reqs[r] IN
        (q.ep = "download" /\ q.resp.kind = "stream") =>
            \A i \in 1..Len(HeaderFilename(q.resp.disposition)) :
                HeaderFilename(q.resp.disposition)[i] \notin {"\"", "\r", "\n", "/", "\\"}

-----------------------------------------------------------------------------
(* Properties of the three routes that resolve a stream URL, checked under Spec *)

\* the request has opened a relay request, or has a success response
RelayedOrSucceeded(q) ==
    \/ q.up_outcome # "none"
    \/ q.conn # "none"
    \/ q.resp.kind = "stream"
    \/ q.resp.kind = "json" /\ q.resp.status = 200

\* get_video_info was called for the request and returned None
MetadataFailed(q) ==
    q.ans_info.tag # "unasked" /\ ~get_video_info(q.video_id, q.ans_info).some

StrVideoPrefix == <<"v","i","d","e","o","_">>

\* C23: download_direct, stream_video and get_direct_url open no relay request and
\* return no success response unless get_real_stream_url returned a non-empty URL;
\* and a download whose metadata lookup returned None is not failed by it: it gets
\* its streaming response, named video_<video_id>.
C23_UrlGuardsRelay ==
    \A r \in DOMAIN reqs :
        LET q == reqs[r] IN
        /\ (q.ep \in {"download", "stream", "direct_url"} /\ RelayedOrSucceeded(q)) =>
               (q.stream_info.some /\ Truthy(GetNone(q.stream_info.url)))
        /\ (q.ep = "download" /\ MetadataFailed(q)) =>
               /\ q.resp.kind = "stream"
               /\ LitAt(StrVideoPrefix \o q.video_id \o <<"_">>,
                        HeaderFilename(q.resp.disposition), 1)

C23_Witness ==
    \E r \in DOMAIN reqs :
        /\ reqs[r].ep = "download" /\ MetadataFailed(reqs[r])
        /\ reqs[r].up_outcome = "ok" /\ reqs[r].sent # <<>>

-----------------------------------------------------------------------------
(* Properties of the two extraction helpers, checked under SpecHelper *)

\* the entries of the answer's format list, when it is a list
FormatsOf(info) ==
    IF info.tag = "info" /\ info.formats.t = "list" THEN info.formats.v ELSE <<>>

\* the url values the answer holds, at the top level and in its formats
UrlInAnswer(u, info) ==
    \/ info.tag = "info" /\ HasKey(info.url) /\ info.url = u
    \/ \E k \in 1..Len(FormatsOf(info)) :
          /\ FormatsOf(info)[k].mapping /\ HasKey(FormatsOf(info)[k].url)
          /\ FormatsOf(info)[k].url = u

\* the extractor raised, answered None or {}, or a dictionary without url and formats
ExtractorFailed(info) ==
    info.tag # "info" \/ (~HasKey(info.url) /\ ~HasKey(info.formats))

\* C24: get_real_stream_url and get_video_info hand no exception to their caller,
\* whatever the extractor does: each returns None or a well-formed dictionary, and
\* the url of a get_real_stream_url result is one of the answer's.
C24_HelpersNeverRaise ==
    /\ fn_pc = "stream" =>
          /\ ~fn_out.raised
          /\ ~fn_out.some => fn_out = NoStream
          /\ fn_out.some =>
                /\ UrlInAnswer(fn_out.url, fn_in)
                /\ fn_out.direct_url = fn_out.url
                /\ fn_out.format_id = fn_parts.format_id
                /\ HasKey(fn_out.ext) /\ HasKey(fn_out.filesize) /\ HasKey(fn_out.has_drm)
    /\ fn_pc = "info" =>
          /\ ~fn_out.raised
          /\ ~fn_out.some => fn_out = NoVideoInfo
          /\ fn_out.some =>
                /\ fn_out.video_id = VideoId
                /\ fn_out.format_count = Len(fn_out.formats)
                /\ HasKey(fn_out.title) /\ HasKey(fn_out.channel) /\ HasKey(fn_out.duration)
                /\ HasKey(fn_out.views) /\ HasKey(fn_out.thumbnail)
    /\ (fn_pc = "stream" /\ ExtractorFailed(fn_in)) => fn_out = NoStream

C24_Witness ==
    /\ fn_pc = "stream" /\ fn_in.tag = "raise" /\ fn_out = NoStream

\* the positions of the format list whose entry has the requested format_id and a url
Matching(info, format_id) ==
    { k \in 1..Len(FormatsOf(info)) :
        /\ EqStr(GetNone(FormatsOf(info)[k].format_id), format_id)
        /\ HasKey(FormatsOf(info)[k].url) }

\* every entry of the format list is a dictionary
WellTyped(info) == \A k \in 1..Len(FormatsOf(info)) : FormatsOf(info)[k].mapping

\* C25: get_real_stream_url returns the top-level url of the answer when it has one;
\* otherwise the url of the first format entry that has the requested format_id and a
\* url; otherwise None. Without a top-level url it never returns the url of an entry
\* with another format_id.
C25_TopUrlThenFirstMatch ==
    (fn_pc = "stream" /\ fn_in.tag = "info" /\ WellTyped(fn_in)) =>
        LET found == Matching(fn_in, fn_parts.format_id) IN
        IF HasKey(fn_in.url)
        THEN fn_out.some /\ fn_out.url = fn_in.url
        ELSE IF found # {}
        THEN /\ fn_out.some
             /\ fn_out.url = FormatsOf(fn_in)[CHOOSE k \in found : \A j \in found : k <= j].url
        ELSE fn_out = NoStream

C25_Witness ==
    /\ fn_pc = "stream" /\ fn_in.tag = "info" /\ ~HasKey(fn_in.url)
    /\ Len(FormatsOf(fn_in)) = 2
    /\ EqStr(GetNone(FormatsOf(fn_in)[1].format_id), fn_parts.format_id)
    /\ ~HasKey(FormatsOf(fn_in)[1].url)
    /\ Matching(fn_in, fn_parts.format_id) = {2}
    /\ fn_out.some /\ fn_out.url = FormatsOf(fn_in)[2].url

-----------------------------------------------------------------------------
(* Properties of the format list of get_video_info, checked under SpecFmt *)

\* the place of a type in the order of the list
RankOfType(type) ==
    CASE type = "video+audio" -> 0
      [] type = "video"       -> 1
      [] type = "audio"       -> 2

\* how often x occurs in the list
Count(seq, x) == Cardinality({ i \in 1..Len(seq) : seq[i] = x })

\* the entries of the provider's list that carry a non-empty url
UrlBearing(fmts) == { k \in 1..Len(fmts) : Truthy(GetNone(fmts[k].url)) }

\* C26: the formats of a get_video_info result are ordered: video+audio before
\* video-only before audio-only, within a type by non-increasing height, among equal
\* heights by non-increasing tbr; and they are a permutation of the parsed entries
\* that carry a url.
C26_FormatsOrdered ==
    (fn_pc = "resolved" /\ fn_out.some) =>
        /\ \A i, j \in 1..Len(fn_out.formats) :
              i < j =>
                LET a == fn_out.formats[i]
                    b == fn_out.formats[j]
                IN  /\ RankOfType(a.type) <= RankOfType(b.type)
                    /\ a.type = b.type => a.height.v >= b.height.v
                    /\ (a.type = b.type /\ a.height.v = b.height.v) => a.tbr.v >= b.tbr.v
        /\ Len(fn_out.formats) = Cardinality(UrlBearing(fn_in))
        /\ \A k \in UrlBearing(fn_in) :
              Count(fn_out.formats, parse_format(fn_in[k])) =
                Cardinality({ j \in UrlBearing(fn_in) : parse_format(fn_in[j]) = parse_format(fn_in[k]) })

\* three entries that arrive in the reverse of their order
C26_Witness ==
    /\ fn_pc = "resolved" /\ fn_out.some /\ Len(fn_in) = 3 /\ Len(fn_out.formats) = 3
    /\ fn_out.formats[1] = parse_format(fn_in[3])
    /\ fn_out.formats[3] = parse_format(fn_in[1])
    /\ fn_out.formats[1].type = "video+audio"
    /\ fn_out.formats[2].type = "video+audio"
    /\ fn_out.formats[1].height.v > fn_out.formats[2].height.v
    /\ fn_out.formats[3].type = "audio"

\* C27: in a get_video_info result format_count is the length of formats, every
\* descriptor has a non-empty url, and every entry of the provider's list with a
\* non-empty url appears exactly once: the entries without one are the only ones left out.
C27_FormatCountAndUrls ==
    (fn_pc = "resolved" /\ fn_out.some) =>
        /\ fn_out.format_count = Len(fn_out.formats)
        /\ \A i \in 1..Len(fn_out.formats) :
              fn_out.formats[i].url.t = "str" /\ fn_out.formats[i].url.v # <<>>
        /\ \A k \in UrlBearing(fn_in) :
              Count(fn_out.formats, parse_format(fn_in[k])) = Count(fn_in, fn_in[k])
        /\ \A i \in 1..Len(fn_out.formats) :
              \E k \in UrlBearing(fn_in) : fn_out.formats[i] = parse_format(fn_in[k])

\* a list of which one entry has no url and one an empty url: one descriptor is left
C27_Witness ==
    /\ fn_pc = "resolved" /\ fn_out.some /\ Len(fn_in) = 3
    /\ \E k \in 1..3 : ~HasKey(fn_in[k].url)
    /\ \E k \in 1..3 : EqStr(fn_in[k].url, <<>>)
    /\ fn_out.format_count = 1 /\ Len(fn_out.formats) = 1

-----------------------------------------------------------------------------
(* Properties of the content type, checked under SpecType *)

\* the content types the paths have chosen so far
Chosen == { fn_out[p] : p \in {"download", "stream", "directly"} } \ {None}

\* C28: download_direct, stream_video and stream_video_directly choose the same
\* content type for the same extension and format_id: video/webm exactly when the
\* extension is webm, otherwise audio/mpeg exactly when the format_id contains
\* "audio", otherwise video/mp4.
C28_SameContentType ==
    LET is_webm  == fn_in.ext.t = "str" /\ fn_in.ext.v = <<"w","e","b","m">>
        is_audio == \E i \in 1..(Len(fn_in.format_id) - 4) :
                       SubSeq(fn_in.format_id, i, i + 4) = <<"a","u","d","i","o">>
    IN  \A type \in Chosen :
          /\ type = <<"v","i","d","e","o","/","w","e","b","m">> <=> is_webm
          /\ type = <<"a","u","d","i","o","/","m","p","e","g">> <=> (~is_webm /\ is_audio)
          /\ type = <<"v","i","d","e","o","/","m","p","4">> <=> (~is_webm /\ ~is_audio)

\* all three paths have chosen for a webm stream of an audio format
C28_Witness ==
    /\ None \notin { fn_out.download, fn_out.stream, fn_out.directly }
    /\ EqStr(fn_in.ext, StrWebm)
    /\ fn_in.format_id = <<"b","e","s","t","a","u","d","i","o">>
    /\ fn_out.stream = <<"v","i","d","e","o","/","w","e","b","m">>

-----------------------------------------------------------------------------
(* Properties of GET /api/test-download/<video_id>, checked under Spec *)

\* the stream URL of format 18 was resolved and is not empty
UrlResolved(q) ==
    /\ q.stream_info.some
    /\ q.stream_info.url.t = "str" /\ q.stream_info.url.v # <<>>

\* C29: test_download answers 404 exactly when the metadata of the video cannot be
\* fetched; otherwise it answers success, with can_download true exactly when the
\* stream URL of format 18 was resolved and is not empty, has_formats true exactly
\* when formats_count is above zero, and url_length zero exactly when no URL was
\* resolved.
C29_TestDownloadReport ==
    \A r \in DOMAIN reqs :
        LET q == reqs[r]
            answered == q.ep = "test" /\ q.resp.kind # "none"
        IN  /\ (q.ep = "test" /\ q.ans_info.tag # "unasked"
                  /\ ~get_video_info(q.video_id, q.ans_info).some) =>
                  (q.resp.kind = "json_error" /\ q.resp.status = 404)
            /\ (answered /\ q.resp.status = 404) => ~get_video_info(q.video_id, q.ans_info).some
            /\ (answered /\ q.resp.status # 404) =>
                  /\ q.resp.kind = "json" /\ q.resp.status = 200
                  /\ "success" \in q.resp.keys /\ "error" \notin q.resp.keys
                  /\ q.resp.can_download <=> UrlResolved(q)
                  /\ q.resp.has_formats <=> q.resp.formats_count > 0
                  /\ q.resp.formats_count = Len(get_video_info(q.video_id, q.ans_info).formats)
                  /\ q.resp.url_length = 0 <=> ~UrlResolved(q)

\* a success report for a video whose format 18 resolved to an empty URL
C29_Witness ==
    \E r \in DOMAIN reqs :
        /\ reqs[r].ep = "test" /\ reqs[r].resp.kind = "json" /\ reqs[r].resp.status = 200
        /\ reqs[r].stream_info.some /\ EqStr(reqs[r].stream_info.url, <<>>)
        /\ ~reqs[r].resp.can_download /\ reqs[r].resp.url_length = 0
        /\ reqs[r].resp.has_formats

-----------------------------------------------------------------------------
(* Properties of the size text of parse_format, checked under SpecFmt *)

\* C30: the size text of parse_format reads "Unknown" exactly when the size is absent
\* or zero, the size being the exact one when its key is there and the approximate
\* one only when it is not; otherwise its unit is B below 1024 bytes, KB from 1024 to
\* below 1024^2, MB from 1024^2 to below 1024^3, and GB from 1024^3 on.
C30_SizeUnit ==
    fn_pc = "parsed" =>
        LET fmt   == fn_in[1]
            size  == IF fmt.filesize.t # "absent" THEN fmt.filesize
                     ELSE IF fmt.filesize_approx.t # "absent" THEN fmt.filesize_approx
                     ELSE Null
            known == size.t = "num" /\ size.v # 0
            unit  == fn_out.size.unit
        IN  /\ unit = "Unknown" <=> ~known
            /\ known =>
                  /\ unit = "B"  <=> size.v < 1024
                  /\ unit = "KB" <=> (1024 <= size.v /\ size.v < 1048576)
                  /\ unit = "MB" <=> (1048576 <= size.v /\ size.v < 1073741824)
                  /\ unit = "GB" <=> 1073741824 <= size.v
                  /\ fn_out.size.bytes = size.v

\* an entry without the exact-size key takes the unit of its approximate size
C30_Witness ==
    /\ fn_pc = "parsed"
    /\ ~HasKey(fn_in[1].filesize) /\ fn_in[1].filesize_approx = Num(2048)
    /\ fn_out.size.unit = "KB"

=============================================================================
